---- MODULE Spec2Model ----
(***************************************************************************)
(* Model of the BACON-AI voice backend: hardware detection (config.py),    *)
(* the WhisperEngine model lifecycle and transcription entry points        *)
(* (stt/whisper_engine.py) as executed by worker-pool threads, and the     *)
(* /ws/audio streaming handler (main.py).                                  *)
(***************************************************************************)
EXTENDS Integers, Sequences, FiniteSets, TLC

VARIABLES
    \* ---- config.detect_gpu: probe inputs and result
    nvidia_probe,     \* outcome of subprocess.check_output(["nvidia-smi", ...])
    rocm_probe,       \* outcome of subprocess.check_output(["rocm-smi", ...])
    gpu_info,         \* what detect_gpu() returned (or that it raised)
    \* ---- WhisperEngine fields
    model,            \* self._model: NoModel (None), Deleted (attribute removed), or a model object
    model_name,       \* self._model_name
    target_model,     \* self._target_model
    downloading,      \* self._downloading
    download_progress,\* self._download_progress (0 for 0.0, 1 for 1.0)
    faster_whisper,   \* whether "from faster_whisper import WhisperModel" succeeds in this process
    \* ---- one record per worker-pool thread executing an engine method
    thr,
    \* ---- history: outcome of the most recent load_model return (and whether
    \*      an unload released the model after it), the most recent call
    \*      that returned to its caller, whether two calls ever overlapped
    last_load,
    last_call,
    overlapped,
    \* ---- one record per /ws/audio connection: the handler's locals, the
    \*      messages the client has sent and the handler has not yet received,
    \*      and the frames sent while handling the latest message
    ses,
    \* ---- one record per HTTP request being served (its worker-pool thread
    \*      has the same name): the request, the temp file the handler staged,
    \*      and the response once the handler has returned
    req,
    \* ---- a run of _collect_segments on its own: what the backend yields
    \*      and the TranscriptionResult assembled from it
    agg,
    \* ---- ClaudeAPIBackend: its fields, and the latest send call with the history it found
    chat,
    \* ---- the Refiner singleton: its _enabled flag, the value the flag had at
    \*      construction, and one record per request that uses the refiner
    refiner

detect_vars == <<nvidia_probe, rocm_probe, gpu_info>>
\* what no engine method touches
outside_vars == <<nvidia_probe, rocm_probe, gpu_info, ses, req, agg, chat, refiner>>
engine_vars == <<model, model_name, target_model, downloading, download_progress, faster_whisper>>
hist_vars == <<last_load, last_call, overlapped>>
vars == <<nvidia_probe, rocm_probe, gpu_info,
          model, model_name, target_model, downloading, download_progress, faster_whisper,
          thr, last_load, last_call, overlapped, ses, req, agg, chat, refiner>>

None == "None"

\* ------------------------------------------------------------------------
\* config.STT_MODELS
\* ------------------------------------------------------------------------
STT_MODELS == <<"tiny", "base", "small", "medium", "large-v3">>

ModelNames == {STT_MODELS[i] : i \in 1..Len(STT_MODELS)}

\* ------------------------------------------------------------------------
\* config.detect_gpu
\* ------------------------------------------------------------------------
\* A probe either raises or returns the tool's stripped output.  The output
\* is kept as the list output.split(",") yields, <<>> standing for the empty
\* string; a field is text int() accepts (isint, with its value) or other text.
MaxFields == 3

VramValues == {0, 1500, 1999, 2000, 4999, 5000, 9999, 10000, 10240}

Fields == {[isint |-> TRUE, val |-> v] : v \in VramValues} \cup {[isint |-> FALSE, val |-> 0]}

FieldText(f) == IF f.isint THEN "digits" ELSE "GeForce"

RECURSIVE SeqsUpTo(_, _)
SeqsUpTo(S, n) ==
    IF n = 0 THEN {<<>>}
    ELSE LET shorter == SeqsUpTo(S, n - 1)
         IN  shorter \cup {Append(q, x) : q \in {r \in shorter : Len(r) = n - 1}, x \in S}

\* FileNotFoundError, CalledProcessError, TimeoutExpired, PermissionError
ProbeErrors == {"FileNotFoundError", "CalledProcessError", "TimeoutExpired", "PermissionError"}

NvidiaOutcomes ==
    [kind : {"raise"}, exc : ProbeErrors, parts : {<<>>}]
    \cup [kind : {"output"}, exc : {None}, parts : SeqsUpTo(Fields, MaxFields)]

\* rocm-smi output matters only through: empty, contains "Total", or not
RocmOutcomes ==
    [kind : {"raise"}, exc : ProbeErrors, text : {None}]
    \cup [kind : {"output"}, exc : {None}, text : {"", "Total", "other"}]

\* except (subprocess.SubprocessError, FileNotFoundError, ValueError)
NvidiaCaught == {"CalledProcessError", "TimeoutExpired", "FileNotFoundError", "ValueError"}

\* except (subprocess.SubprocessError, FileNotFoundError)
RocmCaught == {"CalledProcessError", "TimeoutExpired", "FileNotFoundError"}

DefaultProfile ==
    [raised |-> None, gpu_available |-> FALSE, gpu_type |-> None, gpu_name |-> None,
     vram_mb |-> 0, compute_type |-> "int8", recommended_model |-> "base"]

Raised(exc) ==
    [raised |-> exc, gpu_available |-> FALSE, gpu_type |-> None, gpu_name |-> None,
     vram_mb |-> 0, compute_type |-> None, recommended_model |-> None]

\* the thresholds compared with > instead of >=
RecommendForVramStrict(vram_mb) ==
    IF vram_mb > 10000 THEN "large-v3"
    ELSE IF vram_mb > 5000 THEN "medium"
    ELSE IF vram_mb > 2000 THEN "small"
    ELSE "base"

RecommendForVram(vram_mb) ==
    IF vram_mb >= 10000 THEN "large-v3"
    ELSE IF vram_mb >= 5000 THEN "medium"
    ELSE IF vram_mb >= 2000 THEN "small"
    ELSE "base"

\* The exception the CUDA block raises inside its try, or None
NvidiaBlockException(nv) ==
    IF nv.kind = "raise" THEN nv.exc
    ELSE IF nv.parts = <<>> THEN None                        \* if nvidia_output: (falsy)
    ELSE IF Len(nv.parts) < 2 THEN "IndexError"              \* parts[1]
    ELSE IF ~nv.parts[2].isint THEN "ValueError"            \* int(parts[1].strip())
    ELSE None

RocmBlock(rocm) ==
    IF rocm.kind = "raise"
    THEN IF rocm.exc \in RocmCaught THEN DefaultProfile ELSE Raised(rocm.exc)
    ELSE IF rocm.text = "Total"
    THEN [DefaultProfile EXCEPT !.gpu_available = TRUE, !.gpu_type = "rocm",
                                !.gpu_name = "AMD GPU", !.compute_type = "float16",
                                !.recommended_model = "base"]
    ELSE DefaultProfile

\* a detection that asks rocm-smi first and nvidia-smi only when that finds nothing
detect_gpu_rocm_first(nv, rocm) ==
    LET amd == RocmBlock(rocm)
        exc == NvidiaBlockException(nv)
    IN  IF amd # DefaultProfile THEN amd
        ELSE IF exc # None
        THEN IF exc \in NvidiaCaught THEN DefaultProfile ELSE Raised(exc)
        ELSE IF nv.kind = "output" /\ nv.parts # <<>>
        THEN [DefaultProfile EXCEPT !.gpu_available = TRUE, !.gpu_type = "cuda",
                                    !.gpu_name = FieldText(nv.parts[1]),
                                    !.vram_mb = nv.parts[2].val,
                                    !.compute_type = "float16",
                                    !.recommended_model = RecommendForVram(nv.parts[2].val)]
        ELSE DefaultProfile

detect_gpu(nv, rocm) ==
    LET exc == NvidiaBlockException(nv)
    IN  IF exc # None
        THEN IF exc \in NvidiaCaught THEN RocmBlock(rocm) ELSE Raised(exc)
        ELSE IF nv.kind = "output" /\ nv.parts # <<>>
        THEN [DefaultProfile EXCEPT !.gpu_available = TRUE, !.gpu_type = "cuda",
                                    !.gpu_name = FieldText(nv.parts[1]),
                                    !.vram_mb = nv.parts[2].val,
                                    !.compute_type = "float16",
                                    !.recommended_model = RecommendForVram(nv.parts[2].val)]
        ELSE RocmBlock(rocm)

NotRun == [DefaultProfile EXCEPT !.raised = "not run"]

\* ------------------------------------------------------------------------
\* WhisperEngine
\* ------------------------------------------------------------------------
\* self._model is None, or was removed by "del self._model", or refers to a
\* model object: id tells objects apart, name is the model it was built from.
NoModel == [kind |-> "None", id |-> 0, name |-> None]
Deleted == [kind |-> "deleted", id |-> 0, name |-> None]
ModelObject(i, n) == [kind |-> "model", id |-> i, name |-> n]

IsObject(m) == m.kind = "model"

\* Worker-pool threads that run engine methods for the REST endpoints
ApiThreads == {"t1", "t2"}

\* /ws/audio connections; the transcription a connection dispatches runs in
\* a worker thread named after it
Sessions == {"s1", "s2"}

Threads == ApiThreads \cup Sessions

\* TranscriptionResult; confidence num/den
Confidence(num, den) == [num |-> num, den |-> den]

NoRet ==
    [kind |-> "none", ok |-> FALSE, text |-> "", confidence |-> Confidence(0, 1),
     language |-> "", segments |-> "none", model_used |-> None,
     audio |-> <<>>]       \* history: the bytes of the file the result was computed from

BoolRet(b) == [NoRet EXCEPT !.kind = "bool", !.ok = b]

VoidRet == [NoRet EXCEPT !.kind = "void", !.ok = TRUE]

RaisedRet == [NoRet EXCEPT !.kind = "raised"]

\* a failure result that carries a diagnostic segment whatever the failure
FailureResultDiagnosed(segments, used) ==
    [NoRet EXCEPT !.kind = "result", !.language = "unknown", !.segments = "error",
                  !.model_used = used]

\* the three failure results of transcribe_file: text "", confidence 0.0, language "unknown"
FailureResult(segments, used) ==
    [NoRet EXCEPT !.kind = "result", !.language = "unknown", !.segments = segments,
                  !.model_used = used]

IdleThread ==
    [pc |-> "idle", op |-> None, arg |-> None, obj |-> NoModel, name |-> None,
     ret |-> NoRet, built |-> 0, fault |-> FALSE,
     called |-> FALSE,     \* history: the call has invoked self._model.transcribe
     audio |-> <<>>]       \* the bytes of the file at file_path

\* ---- the recognition backend: what model.transcribe yields
\* avg_logprob in hundredths
Segment(text, lp) == [text |-> text, avg_logprob |-> lp]

BackendOutputs ==
    { [segments |-> <<>>, language |-> ""],
      [segments |-> <<Segment(" Hello world", -20)>>, language |-> "en"],
      [segments |-> <<Segment(" Guten", -150), Segment("Tag ", 10)>>, language |-> "de"] }

Min(a, b) == IF a < b THEN a ELSE b
Max(a, b) == IF a > b THEN a ELSE b

\* a segment confidence with no upper limit
SegmentConfUnclamped(seg) == Max(0, 100 + seg.avg_logprob)

\* segment_conf = min(1.0, max(0.0, 1.0 + segment.avg_logprob)), in hundredths
SegmentConf(seg) == Min(100, Max(0, 100 + seg.avg_logprob))

RECURSIVE TotalConfidence(_)
TotalConfidence(segs) ==
    IF segs = <<>> THEN 0 ELSE SegmentConf(Head(segs)) + TotalConfidence(Tail(segs))

\* str.strip() of the segment texts the backend set above uses
Strip(text) ==
    CASE text = " Hello world" -> "Hello world"
      [] text = " Guten" -> "Guten"
      [] text = "Tag " -> "Tag"
      [] OTHER -> text

RECURSIVE JoinSpace(_)
JoinSpace(parts) ==
    IF parts = <<>> THEN ""
    ELSE IF Len(parts) = 1 THEN Head(parts)
    ELSE Head(parts) \o " " \o JoinSpace(Tail(parts))

\* _collect_segments without the "en" default of the language
_collect_segments_raw_language(out, name) ==
    LET n == Len(out.segments)
    IN  [NoRet EXCEPT
            !.kind = "result",
            !.text = JoinSpace([i \in 1..n |-> Strip(out.segments[i].text)]),
            !.confidence = IF n > 0 THEN Confidence(TotalConfidence(out.segments), n)
                           ELSE Confidence(0, 1),
            !.language = out.language,
            !.segments = IF n > 0 THEN "segments" ELSE "empty",
            !.model_used = name]

_collect_segments(out, name) ==
    LET n == Len(out.segments)
    IN  [NoRet EXCEPT
            !.kind = "result",
            !.text = JoinSpace([i \in 1..n |-> Strip(out.segments[i].text)]),
            !.confidence = IF n > 0 THEN Confidence(TotalConfidence(out.segments), n)
                           ELSE Confidence(0, 1),
            !.language = IF out.language # "" THEN out.language ELSE "en",
            !.segments = IF n > 0 THEN "segments" ELSE "empty",
            !.model_used = name]

\* no run of _collect_segments on its own
NoAggregation == [out |-> [segments |-> <<>>, language |-> ""], ret |-> NoRet]

\* ---- object identity: the smallest id no live reference uses
LiveObjects == {m \in {model} \cup {thr[t].obj : t \in DOMAIN thr} : IsObject(m)}

FreshId == CHOOSE i \in 1..(Cardinality(DOMAIN thr) + 2) :
              /\ i \notin {m.id : m \in LiveObjects}
              /\ \A j \in 1..(i - 1) : j \in {m.id : m \in LiveObjects}

\* ---- /ws/audio: messages, frames, the handler's locals
\* an audio chunk is a sequence of bytes
Chunks == {<<>>, <<1>>, <<2, 3>>}

NoFile == [present |-> FALSE, content |-> <<>>]
TempFile(bytes) == [present |-> TRUE, content |-> bytes]

\* what websocket.receive() yields.  json tells what json.loads makes of a
\* text frame: "invalid" (JSONDecodeError), "array" (a value that is not an
\* object) or "object", whose "type" member is type ("" when it has none).
\* arrived is the protocol state the connection was in when the client sent
\* it, busy the connections whose job was in flight at that moment.
TextMsg(json, type) ==
    [kind |-> "text", json |-> json, type |-> type, data |-> <<>>, arrived |-> None,
     busy |-> {}]
BytesMsg(data) ==
    [kind |-> "bytes", json |-> None, type |-> None, data |-> data, arrived |-> None,
     busy |-> {}]
DisconnectMsg ==
    [kind |-> "disconnect", json |-> None, type |-> None, data |-> <<>>, arrived |-> None,
     busy |-> {}]
NoMsg == [kind |-> None, json |-> None, type |-> None, data |-> <<>>, arrived |-> None,
     busy |-> {}]

ClientMessages ==
    {TextMsg("object", ty) : ty \in {"start", "stop", "cancel", "pause"}}
    \cup {TextMsg("invalid", None), TextMsg("array", None)}
    \cup {BytesMsg(c) : c \in Chunks}

StatusFrame(state) == [type |-> "status", state |-> state, message |-> None, result |-> NoRet]
ErrorFrame(message) == [type |-> "error", state |-> None, message |-> message, result |-> NoRet]
ResultFrame(result) == [type |-> "result", state |-> None, message |-> None, result |-> result]

\* history: the protocol state and the chunks received since the last start,
\* as they were when the handler received its latest message
NoPrior == [state |-> None, heard |-> <<>>]

NewSession ==
    [pc |-> "new", open |-> TRUE, recording |-> FALSE, audio_chunks |-> <<>>,
     inbox |-> <<>>, frames |-> <<>>, last |-> NoMsg, staged |-> NoFile,
     leaked |-> FALSE, heard |-> <<>>, prior |-> NoPrior, sent |-> 0]

\* ---- WhisperEngine.__init__ (device and compute type do not influence control flow)
\* ---- HTTP requests and responses
\* status 0: no response yet.  detail is the message of an error response,
\* available the "available" member of its body, result the
\* TranscriptionResult a 200 response carries.
NoResponse == [status |-> 0, detail |-> None, available |-> <<>>, result |-> NoRet]

Response(status, detail) == [NoResponse EXCEPT !.status = status, !.detail = detail]

\* pc: "none" (no request), "await" (the handler awaits run_in_executor),
\* "responded".  name is the path parameter of /models/{name}/load, suffix
\* the extension of the uploaded file's name or of the local path, bytes the
\* uploaded content, tmp the temp file the handler wrote, leaked whether a
\* temp file was left behind.
NoRequest ==
    [pc |-> "none", endpoint |-> None, name |-> None, suffix |-> None, bytes |-> <<>>,
     output_format |-> None, tmp |-> NoFile, leaked |-> FALSE, resp |-> NoResponse]

\* ---- integrations.claude_api.ClaudeAPIBackend
\* what send returns; kind "none": no send yet (or the history was cleared since)
NoSendResult == [kind |-> "none", success |-> FALSE, message |-> None, response |-> ""]

\* api_key: bool(self._api_key); anthropic: whether "import anthropic"
\* succeeds in this process; client: self._client is not None; history:
\* self._conversation_history.  text, prior and result are history of the
\* latest send: its argument, the conversation it found, what it returned.
ClaudeAPIBackend__init__(api_key, anthropic) ==
    [api_key |-> api_key, anthropic |-> anthropic, client |-> FALSE, history |-> <<>>,
     text |-> None, prior |-> <<>>, result |-> NoSendResult]

NoChat == ClaudeAPIBackend__init__(FALSE, FALSE)

\* the HTTP requests that use the refiner side by side
RefinerRequests == {"r1", "r2"}

NoRefineJob == [pc |-> "none", endpoint |-> None, was_enabled |-> FALSE, outcome |-> None]

\* Refiner.__init__ and _load_persistent_config: False, or "enabled" of refiner.json
Refiner__init__(enabled) ==
    [enabled |-> enabled, constructed |-> enabled,
     job |-> [r \in RefinerRequests |-> NoRefineJob]]

NoRefiner == Refiner__init__(FALSE)

\* a constructor that takes the requested name as it comes
WhisperEngine__init__Unchecked(requested, gpu) ==
    /\ model = NoModel
    /\ model_name = None
    /\ downloading = FALSE
    /\ download_progress = 0
    /\ target_model = requested

WhisperEngine__init__(requested, gpu) ==
    /\ model = NoModel
    /\ model_name = None
    /\ downloading = FALSE
    /\ download_progress = 0
    /\ target_model = IF requested # None /\ requested \in ModelNames
                      THEN requested ELSE gpu.recommended_model

CpuProbe == [kind |-> "raise", exc |-> "FileNotFoundError", parts |-> <<>>]
NoRocm == [kind |-> "raise", exc |-> "FileNotFoundError", text |-> None]

NoCall == [op |-> None, arg |-> None, ret |-> NoRet, built |-> 0]

NoLoad == [result |-> "none", unloaded |-> FALSE]

LoadReturned(v) == [result |-> v, unloaded |-> FALSE]

EngineInit(requests) ==
    /\ nvidia_probe = CpuProbe
    /\ rocm_probe = NoRocm
    /\ gpu_info = detect_gpu(nvidia_probe, rocm_probe)
    /\ \E requested \in requests : WhisperEngine__init__(requested, gpu_info)
    /\ faster_whisper \in BOOLEAN
    /\ thr = [t \in Threads |-> IdleThread]
    /\ last_load = NoLoad
    /\ last_call = NoCall
    /\ overlapped = FALSE
    /\ ses = [x \in Sessions |-> NewSession]
    /\ req = [t \in ApiThreads |-> NoRequest]
    /\ refiner = NoRefiner
    /\ chat = NoChat
    /\ agg = NoAggregation

\* ---- calls dispatched to the worker pool
SwitchArgs == {"tiny", "small", "whisper-9"}

Calls ==
    {[op |-> "load", arg |-> None], [op |-> "unload", arg |-> None]}
    \cup [op : {"switch"}, arg : SwitchArgs]
    \cup [op : {"transcribe_file"}, arg : {"exists", "missing"}]
    \cup [op : {"transcribe_audio"}, arg : {"samples", "no_samples"}]

\* thread t is inside an engine method
Executing(t) == thr[t].pc \notin {"idle", "done"}

FirstPc(op) ==
    CASE op = "switch" -> "sw_begin"
      [] op = "unload" -> "un_check"
      [] OTHER -> "ld_check"

Call(t, c) ==
    /\ thr[t].pc = "idle"
    /\ thr' = [thr EXCEPT ![t] = [IdleThread EXCEPT !.pc = FirstPc(c.op), !.op = c.op,
                                                    !.arg = c.arg]]
    /\ overlapped' = (overlapped \/ \E u \in DOMAIN thr : thr[u].pc # "idle")
    /\ last_call' = IF overlapped' THEN NoCall ELSE last_call
    /\ UNCHANGED <<outside_vars, engine_vars, last_load>>

Done(rec, ret) ==
    [rec EXCEPT !.pc = "done", !.ret = [ret EXCEPT !.audio = rec.audio], !.obj = NoModel]

\* What the caller of load_model does with its return value v
\* ("True", "False", or "raised" for an exception leaving load_model).
\* transcribe_file tests file_path.exists(); transcribe_audio normalises the
\* samples, np.abs(audio_data).max() raising ValueError for an empty array.
AfterLoad(rec, v) ==
    IF v = "raised" THEN Done(rec, RaisedRet)
    ELSE IF rec.op \in {"load", "switch"} THEN Done(rec, BoolRet(v = "True"))
    ELSE IF v = "False" THEN Done(rec, FailureResult("empty", target_model))
    ELSE IF rec.arg = "no_samples"
         THEN Done([rec EXCEPT !.fault = TRUE], RaisedRet)
    ELSE IF rec.arg = "missing"
         THEN Done([rec EXCEPT !.fault = TRUE], FailureResult("error", target_model))
    ELSE [rec EXCEPT !.pc = "tf_call"]

\* except clauses that return False and leave self._downloading as it was
LoadFailedKeepsDownloading(t, rec) ==
    /\ downloading' = downloading
    /\ thr' = [thr EXCEPT ![t] = AfterLoad(rec, "False")]
    /\ last_load' = LoadReturned("failed")

\* load_model's except clauses: self._downloading = False; return False
LoadFailed(t, rec) ==
    /\ downloading' = FALSE
    /\ thr' = [thr EXCEPT ![t] = AfterLoad(rec, "False")]
    /\ last_load' = LoadReturned("failed")

\* load_model without its first test: every call reloads
LdCheckAlways(t) ==
    /\ thr[t].pc = "ld_check"
    /\ thr' = [thr EXCEPT ![t] = IF model = Deleted THEN AfterLoad(thr[t], "raised")
                                 ELSE [@ EXCEPT !.pc = "ld_begin"]]
    /\ UNCHANGED <<outside_vars, engine_vars, hist_vars>>

\* if self._model is not None and self._model_name == self._target_model: return True
LdCheck(t) ==
    /\ thr[t].pc = "ld_check"
    /\ IF model = Deleted
       THEN /\ thr' = [thr EXCEPT ![t] = AfterLoad(thr[t], "raised")]
            /\ UNCHANGED last_load
       ELSE IF model # NoModel /\ model_name = target_model
       THEN /\ thr' = [thr EXCEPT ![t] = AfterLoad(thr[t], "True")]
            /\ last_load' = LoadReturned("ok")
       ELSE /\ thr' = [thr EXCEPT ![t].pc = "ld_begin"]
            /\ UNCHANGED last_load
    /\ UNCHANGED <<outside_vars, engine_vars, last_call, overlapped>>

\* import; self._downloading = True; self._download_progress = 0.0;
\* if self._model is not None:
LdBegin(t) ==
    /\ thr[t].pc = "ld_begin"
    /\ IF ~faster_whisper
       THEN /\ LoadFailed(t, [thr[t] EXCEPT !.fault = TRUE])
            /\ UNCHANGED <<download_progress>>
       ELSE IF model = Deleted
       THEN /\ LoadFailed(t, thr[t])
            /\ download_progress' = 0
       ELSE /\ downloading' = TRUE
            /\ download_progress' = 0
            /\ thr' = [thr EXCEPT ![t].pc = IF model # NoModel THEN "ld_del"
                                            ELSE "ld_construct"]
            /\ UNCHANGED last_load
    /\ UNCHANGED <<outside_vars, model, model_name, target_model, faster_whisper, last_call, overlapped>>

\* del self._model
LdDel(t) ==
    /\ thr[t].pc = "ld_del"
    /\ IF model = Deleted
       THEN /\ LoadFailed(t, thr[t])
            /\ UNCHANGED model
       ELSE /\ model' = Deleted
            /\ thr' = [thr EXCEPT ![t].pc = "ld_none"]
            /\ UNCHANGED <<downloading, last_load>>
    /\ UNCHANGED <<outside_vars, model_name, target_model, download_progress, faster_whisper,
                   last_call, overlapped>>

\* self._model = None; self._model_name = None
LdNone(t) ==
    /\ thr[t].pc = "ld_none"
    /\ model' = NoModel
    /\ model_name' = None
    /\ thr' = [thr EXCEPT ![t].pc = "ld_construct"]
    /\ UNCHANGED <<outside_vars, target_model, downloading, download_progress, faster_whisper,
                   hist_vars>>

\* WhisperModel(self._target_model, ...): raises, or returns a new object
LdConstruct(t) ==
    /\ thr[t].pc = "ld_construct"
    /\ \/ /\ LoadFailed(t, [thr[t] EXCEPT !.fault = TRUE])
       \/ /\ thr' = [thr EXCEPT ![t] = [@ EXCEPT !.pc = "ld_store",
                                                 !.obj = ModelObject(FreshId, target_model),
                                                 !.built = @ + 1]]
          /\ UNCHANGED <<downloading, last_load>>
    /\ UNCHANGED <<outside_vars, model, model_name, target_model, download_progress,
                   faster_whisper, last_call, overlapped>>

\* self._model = <the object constructed>
LdStore(t) ==
    /\ thr[t].pc = "ld_store"
    /\ model' = thr[t].obj
    /\ thr' = [thr EXCEPT ![t] = [@ EXCEPT !.pc = "ld_name", !.obj = NoModel]]
    /\ UNCHANGED <<outside_vars, model_name, target_model, downloading, download_progress,
                   faster_whisper, hist_vars>>

\* self._model_name = self._target_model; self._downloading = False;
\* self._download_progress = 1.0; return True
LdName(t) ==
    /\ thr[t].pc = "ld_name"
    /\ model_name' = target_model
    /\ downloading' = FALSE
    /\ download_progress' = 1
    /\ thr' = [thr EXCEPT ![t] = AfterLoad(thr[t], "True")]
    /\ last_load' = LoadReturned("ok")
    /\ UNCHANGED <<outside_vars, model, target_model, faster_whisper, last_call, overlapped>>

\* switch_model: if model_name not in STT_MODELS: return False; self._target_model = model_name
SwBegin(t) ==
    /\ thr[t].pc = "sw_begin"
    /\ IF thr[t].arg \notin ModelNames
       THEN /\ thr' = [thr EXCEPT ![t] = Done([@ EXCEPT !.fault = TRUE], BoolRet(FALSE))]
            /\ UNCHANGED <<target_model, last_load>>
       ELSE /\ target_model' = thr[t].arg
            /\ thr' = [thr EXCEPT ![t].pc = "sw_clear"]
            /\ UNCHANGED last_load
    /\ UNCHANGED <<outside_vars, model, model_name, downloading, download_progress,
                   faster_whisper, last_call, overlapped>>

\* a switch_model that leaves the resident model and its name in place
SwClearKeep(t) ==
    /\ thr[t].pc = "sw_clear"
    /\ thr' = [thr EXCEPT ![t].pc = "ld_check"]
    /\ UNCHANGED <<outside_vars, engine_vars, hist_vars>>

\* a switch_model that drops the model but forgets self._model_name = None
SwClearModelOnly(t) ==
    /\ thr[t].pc = "sw_clear"
    /\ model' = NoModel
    /\ thr' = [thr EXCEPT ![t].pc = "ld_check"]
    /\ UNCHANGED <<outside_vars, model_name, target_model, downloading, download_progress,
                   faster_whisper, hist_vars>>

\* switch_model: self._model = None; self._model_name = None; return self.load_model()
SwClear(t) ==
    /\ thr[t].pc = "sw_clear"
    /\ model' = NoModel
    /\ model_name' = None
    /\ thr' = [thr EXCEPT ![t].pc = "ld_check"]
    /\ UNCHANGED <<outside_vars, target_model, downloading, download_progress, faster_whisper,
                   hist_vars>>

\* unload_model: if self._model is not None:
UnCheck(t) ==
    /\ thr[t].pc = "un_check"
    /\ thr' = [thr EXCEPT ![t] = IF model = Deleted THEN Done(@, RaisedRet)
                                 ELSE IF model = NoModel THEN Done(@, VoidRet)
                                 ELSE [@ EXCEPT !.pc = "un_del"]]
    /\ UNCHANGED <<outside_vars, engine_vars, hist_vars>>

\* unload_model: del self._model
UnDel(t) ==
    /\ thr[t].pc = "un_del"
    /\ IF model = Deleted
       THEN /\ thr' = [thr EXCEPT ![t] = Done(@, RaisedRet)]
            /\ UNCHANGED model
       ELSE /\ model' = Deleted
            /\ thr' = [thr EXCEPT ![t].pc = "un_none"]
    /\ UNCHANGED <<outside_vars, model_name, target_model, downloading, download_progress,
                   faster_whisper, hist_vars>>

\* unload_model: self._model = None; self._model_name = None
UnNone(t) ==
    /\ thr[t].pc = "un_none"
    /\ model' = NoModel
    /\ model_name' = None
    /\ thr' = [thr EXCEPT ![t] = Done(@, VoidRet)]
    /\ last_load' = [last_load EXCEPT !.unloaded = TRUE]
    /\ UNCHANGED <<outside_vars, target_model, downloading, download_progress, faster_whisper,
                   last_call, overlapped>>

\* transcribe_file, transcribe_audio: self._model.transcribe(...) is called:
\* AttributeError when self._model is None or missing, or the backend raises,
\* or it returns the segment generator
TfCall(t) ==
    /\ thr[t].pc = "tf_call"
    /\ \/ /\ ~IsObject(model)
          /\ thr' = [thr EXCEPT ![t] = Done(@, FailureResult("error", target_model))]
       \/ /\ IsObject(model)
          /\ thr' = [thr EXCEPT ![t] =
                        Done([@ EXCEPT !.fault = TRUE, !.called = TRUE],
                             FailureResult("error", target_model))]
       \/ /\ IsObject(model)
          /\ thr' = [thr EXCEPT ![t] = [@ EXCEPT !.pc = "tf_name", !.obj = model,
                                                 !.called = TRUE]]
    /\ UNCHANGED <<outside_vars, engine_vars, hist_vars>>

\* transcribe_file: the argument self._model_name of _collect_segments is read
TfName(t) ==
    /\ thr[t].pc = "tf_name"
    /\ thr' = [thr EXCEPT ![t] = [@ EXCEPT !.pc = "tf_iter", !.name = model_name]]
    /\ UNCHANGED <<outside_vars, engine_vars, hist_vars>>

\* _collect_segments called outside the try block: an exception raised while
\* the segments are iterated leaves transcribe_file
TfIterUncaught(t) ==
    /\ thr[t].pc = "tf_iter"
    /\ \/ thr' = [thr EXCEPT ![t] = Done([@ EXCEPT !.fault = TRUE], RaisedRet)]
       \/ \E out \in BackendOutputs :
            thr' = [thr EXCEPT ![t] = Done(@, _collect_segments(out, thr[t].name))]
    /\ UNCHANGED <<outside_vars, engine_vars, hist_vars>>

\* transcribe_file: _collect_segments iterates the generator (the inference
\* itself): the backend raises, or the result is assembled
TfIter(t) ==
    /\ thr[t].pc = "tf_iter"
    /\ \/ thr' = [thr EXCEPT ![t] =
                    Done([@ EXCEPT !.fault = TRUE], FailureResult("error", target_model))]
       \/ \E out \in BackendOutputs :
            thr' = [thr EXCEPT ![t] = Done(@, _collect_segments(out, thr[t].name))]
    /\ UNCHANGED <<outside_vars, engine_vars, hist_vars>>

\* the call returns to the endpoint that awaited it.  The history keeps the
\* most recent call for as long as no two calls have overlapped.
Return(t) ==
    /\ thr[t].pc = "done"
    /\ last_call' = IF overlapped THEN NoCall
                    ELSE [op |-> thr[t].op, arg |-> thr[t].arg, ret |-> thr[t].ret,
                          built |-> thr[t].built]
    /\ thr' = [thr EXCEPT ![t] = IdleThread]
    /\ UNCHANGED <<outside_vars, engine_vars, last_load, overlapped>>

\* the steps of a transcribe_file call that no other call interferes with
TranscribeStep(t) ==
    \/ LdCheck(t) \/ LdBegin(t) \/ LdConstruct(t) \/ LdStore(t) \/ LdName(t)
    \/ TfCall(t) \/ TfName(t) \/ TfIter(t)

EngineStep(t) ==
    \/ LdCheck(t) \/ LdBegin(t) \/ LdDel(t) \/ LdNone(t)
    \/ LdConstruct(t) \/ LdStore(t) \/ LdName(t)
    \/ SwBegin(t) \/ SwClear(t)
    \/ UnCheck(t) \/ UnDel(t) \/ UnNone(t)
    \/ TfCall(t) \/ TfName(t) \/ TfIter(t)

\* ------------------------------------------------------------------------
\* main.websocket_audio
\* ------------------------------------------------------------------------
MaxInbox == 1
MaxChunks == 2

\* the protocol state of a connection
StateOf(r) ==
    IF r.pc = "await" THEN "processing"
    ELSE IF r.recording THEN "recording" ELSE "ready"

RECURSIVE Concat(_)
Concat(chunks) == IF chunks = <<>> THEN <<>> ELSE Head(chunks) \o Concat(Tail(chunks))

\* combined = b"".join(audio_chunks)
Combined(chunks) == Concat(chunks)

IsBytes(m) == m.kind = "bytes"

\* the connections whose transcription job is in flight
Busy == {x \in DOMAIN ses : ses[x].pc = "await"}

\* the message m as connection s sends it now
Stamped(m, s) == [m EXCEPT !.arrived = StateOf(ses[s]), !.busy = Busy]

\* the client sends a frame; the handler receives it when it next awaits
\* websocket.receive()
ClientSend(s, m) ==
    /\ ses[s].pc \in {"recv", "await"}
    /\ ses[s].open
    /\ Len(ses[s].inbox) < MaxInbox
    /\ IsBytes(m) =>
          Len(ses[s].heard) + Len(SelectSeq(ses[s].inbox, IsBytes)) < MaxChunks
    /\ ses' = [ses EXCEPT ![s].inbox = Append(@, Stamped(m, s))]
    /\ UNCHANGED <<detect_vars, refiner, chat, agg, req, engine_vars, thr, hist_vars>>

\* the client goes away: the handler will receive websocket.disconnect, and
\* every send from now on raises
ClientClose(s) ==
    /\ ses[s].pc \in {"recv", "await"}
    /\ ses[s].open
    /\ ses' = [ses EXCEPT ![s] = [@ EXCEPT !.open = FALSE,
                                           !.inbox = Append(@, DisconnectMsg)]]
    /\ UNCHANGED <<detect_vars, refiner, chat, agg, req, engine_vars, thr, hist_vars>>

\* the handler function has returned
Closed(r) ==
    [r EXCEPT !.pc = "closed", !.open = FALSE, !.recording = FALSE, !.audio_chunks = <<>>,
              !.inbox = <<>>, !.heard = <<>>]

\* sends that succeed although the client is gone
EmitAlways(r, fs) == [r EXCEPT !.frames = @ \o fs]

\* the handler sends the frames fs one after the other and goes on as r, or
\* the first send raises because the client is gone: the exception leaves the
\* loop, the outer handlers log it (their own send_error raises too) and the
\* handler returns
Emit(r, fs) ==
    IF r.open THEN [r EXCEPT !.frames = @ \o fs] ELSE Closed(r)

\* Accept without the first status frame
AcceptSilent(s) ==
    /\ ses[s].pc = "new"
    /\ ses' = [ses EXCEPT ![s] = [@ EXCEPT !.pc = "recv"]]
    /\ UNCHANGED <<detect_vars, refiner, chat, agg, req, engine_vars, thr, hist_vars>>

\* await websocket.accept(); await send_status("ready")
Accept(s) ==
    /\ ses[s].pc = "new"
    /\ ses' = [ses EXCEPT ![s] = Emit([@ EXCEPT !.pc = "recv"], <<StatusFrame("ready")>>)]
    /\ UNCHANGED <<detect_vars, refiner, chat, agg, req, engine_vars, thr, hist_vars>>

\* message = await websocket.receive(): the guard of every Recv action, and
\* the handler's record once the message is taken
Receives(s, kind, json, type) ==
    /\ ses[s].pc = "recv"
    /\ ses[s].inbox # <<>>
    /\ Head(ses[s].inbox).kind = kind
    /\ Head(ses[s].inbox).json = json
    /\ Head(ses[s].inbox).type = type

Taken(r) ==
    [r EXCEPT !.inbox = Tail(@), !.last = Head(r.inbox), !.frames = <<>>,
              !.prior = [state |-> StateOf(r), heard |-> r.heard]]

\* if message.get("type") == "websocket.disconnect": break
RecvDisconnect(s) ==
    /\ Receives(s, "disconnect", None, None)
    /\ ses' = [ses EXCEPT ![s] = Closed(Taken(@))]
    /\ UNCHANGED <<detect_vars, refiner, chat, agg, req, engine_vars, thr, hist_vars>>

\* except json.JSONDecodeError: await send_error("Invalid JSON"); continue
RecvInvalidJson(s) ==
    /\ Receives(s, "text", "invalid", None)
    /\ ses' = [ses EXCEPT ![s] = Emit(Taken(@), <<ErrorFrame("Invalid JSON")>>)]
    /\ UNCHANGED <<detect_vars, refiner, chat, agg, req, engine_vars, thr, hist_vars>>

\* data.get raises AttributeError on a JSON value that is not an object:
\* except Exception: await send_error(str(e)), and the handler returns
RecvNonObject(s) ==
    /\ Receives(s, "text", "array", None)
    /\ ses' = [ses EXCEPT ![s] = Closed(Emit(Taken(@), <<ErrorFrame("AttributeError")>>))]
    /\ UNCHANGED <<detect_vars, refiner, chat, agg, req, engine_vars, thr, hist_vars>>

\* RecvStart that keeps the chunks buffered so far
RecvStartKeepsBuffer(s) ==
    /\ Receives(s, "text", "object", "start")
    /\ ses' = [ses EXCEPT ![s] =
                  Emit([Taken(@) EXCEPT !.recording = TRUE, !.heard = <<>>],
                       <<StatusFrame("recording")>>)]
    /\ UNCHANGED <<detect_vars, refiner, chat, agg, req, engine_vars, thr, hist_vars>>

\* if msg_type == "start":
RecvStart(s) ==
    /\ Receives(s, "text", "object", "start")
    /\ ses' = [ses EXCEPT ![s] =
                  Emit([Taken(@) EXCEPT !.audio_chunks = <<>>, !.recording = TRUE,
                                        !.heard = <<>>],
                       <<StatusFrame("recording")>>)]
    /\ UNCHANGED <<detect_vars, refiner, chat, agg, req, engine_vars, thr, hist_vars>>

\* RecvCancel that leaves the buffer as it is
RecvCancelKeepsBuffer(s) ==
    /\ Receives(s, "text", "object", "cancel")
    /\ ses' = [ses EXCEPT ![s] =
                  Emit([Taken(@) EXCEPT !.recording = FALSE], <<StatusFrame("ready")>>)]
    /\ UNCHANGED <<detect_vars, refiner, chat, agg, req, engine_vars, thr, hist_vars>>

\* RecvCancel that is also taken while the handler awaits its job
RecvCancelEager(s) ==
    /\ ses[s].pc \in {"recv", "await"}
    /\ ses[s].inbox # <<>>
    /\ Head(ses[s].inbox).type = "cancel"
    /\ ses' = [ses EXCEPT ![s] =
                  Emit([Taken(@) EXCEPT !.audio_chunks = <<>>, !.recording = FALSE,
                                        !.heard = <<>>],
                       <<StatusFrame("ready")>>)]
    /\ UNCHANGED <<detect_vars, refiner, chat, agg, req, engine_vars, thr, hist_vars>>

\* elif msg_type == "cancel":
RecvCancel(s) ==
    /\ Receives(s, "text", "object", "cancel")
    /\ ses' = [ses EXCEPT ![s] =
                  Emit([Taken(@) EXCEPT !.audio_chunks = <<>>, !.recording = FALSE,
                                        !.heard = <<>>],
                       <<StatusFrame("ready")>>)]
    /\ UNCHANGED <<detect_vars, refiner, chat, agg, req, engine_vars, thr, hist_vars>>

\* a JSON object whose type is none of start, stop, cancel: no branch is taken
RecvOtherType(s) ==
    /\ Receives(s, "text", "object", "pause")
    /\ ses' = [ses EXCEPT ![s] = Taken(@)]
    /\ UNCHANGED <<detect_vars, refiner, chat, agg, req, engine_vars, thr, hist_vars>>

\* RecvBytes without the test of recording: a chunk is appended in any state
RecvBytesAnyState(s) ==
    /\ Receives(s, "bytes", None, None)
    /\ LET data == Head(ses[s].inbox).data
       IN  ses' = [ses EXCEPT ![s] =
                      [Taken(@) EXCEPT
                          !.audio_chunks = IF data # <<>> THEN Append(@, data) ELSE @,
                          !.heard = IF ses[s].recording THEN Append(@, data) ELSE @]]
    /\ UNCHANGED <<detect_vars, refiner, chat, agg, req, engine_vars, thr, hist_vars>>

\* RecvBytes without the test of message["bytes"]: an empty chunk is appended too
RecvBytesAnyLength(s) ==
    /\ Receives(s, "bytes", None, None)
    /\ LET data == Head(ses[s].inbox).data
       IN  ses' = [ses EXCEPT ![s] =
                      [Taken(@) EXCEPT
                          !.audio_chunks = IF ses[s].recording THEN Append(@, data) ELSE @,
                          !.heard = IF ses[s].recording THEN Append(@, data) ELSE @]]
    /\ UNCHANGED <<detect_vars, refiner, chat, agg, req, engine_vars, thr, hist_vars>>

\* elif "bytes" in message: if recording and message["bytes"]: audio_chunks.append(...)
RecvBytes(s) ==
    /\ Receives(s, "bytes", None, None)
    /\ LET data == Head(ses[s].inbox).data
       IN  ses' = [ses EXCEPT ![s] =
                      [Taken(@) EXCEPT
                          !.audio_chunks = IF ses[s].recording /\ data # <<>>
                                           THEN Append(@, data) ELSE @,
                          !.heard = IF ses[s].recording THEN Append(@, data) ELSE @]]
    /\ UNCHANGED <<detect_vars, refiner, chat, agg, req, engine_vars, thr, hist_vars>>

\* save_temp_audio: the file is written, or NamedTemporaryFile raises (no
\* file), or write/close raises (the file, created with delete=False, stays)
SaveOutcomes == {"ok", "no_file", "partial"}

\* the test of the buffer left out: a stop always stages and transcribes
NoAudioNever(chunks) == FALSE

\* if not audio_chunks:
NoAudio(chunks) == chunks = <<>>

\* elif msg_type == "stop": up to the await of run_in_executor
RecvStop(s) ==
    /\ Receives(s, "text", "object", "stop")
    /\ LET r == [Taken(ses[s]) EXCEPT !.recording = FALSE]
           processing == Emit(r, <<StatusFrame("processing")>>)
       IN  IF ~r.open
           THEN /\ ses' = [ses EXCEPT ![s] = processing]
                /\ UNCHANGED <<thr, overlapped>>
           ELSE IF NoAudio(r.audio_chunks)
           THEN /\ ses' = [ses EXCEPT ![s] =
                              Emit([processing EXCEPT !.heard = <<>>],
                                   <<ErrorFrame("No audio data received"),
                                     StatusFrame("ready")>>)]
                /\ UNCHANGED <<thr, overlapped>>
           ELSE \E outcome \in SaveOutcomes :
                  IF outcome = "ok"
                  THEN /\ ses' = [ses EXCEPT ![s] =
                                     [processing EXCEPT
                                         !.pc = "await",
                                         !.staged = TempFile(Combined(r.audio_chunks))]]
                       /\ thr' = [thr EXCEPT ![s] =
                                     [IdleThread EXCEPT !.pc = FirstPc("transcribe_file"),
                                                        !.op = "transcribe_file",
                                                        !.arg = "exists",
                                                        !.audio = Combined(r.audio_chunks)]]
                       /\ overlapped' = (overlapped \/ \E u \in DOMAIN thr : thr[u].pc # "idle")
                  ELSE /\ ses' = [ses EXCEPT ![s] =
                                     Emit([processing EXCEPT
                                              !.audio_chunks = <<>>, !.heard = <<>>,
                                              !.leaked = @ \/ outcome = "partial"],
                                          <<ErrorFrame("Transcription failed"),
                                            StatusFrame("ready")>>)]
                       /\ UNCHANGED <<thr, overlapped>>
    /\ UNCHANGED <<detect_vars, refiner, chat, agg, req, engine_vars, last_load, last_call>>

\* the frame that answers a finished job: send_result(result), or, when
\* transcribe_file raised, send_error(f"Transcription failed: {e}")
AnswerFrame(ret) ==
    IF ret.kind = "raised" THEN ErrorFrame("Transcription failed") ELSE ResultFrame(ret)

\* JobDone without the audio_chunks = [] that follows the try statement
JobDoneKeepsBuffer(s) ==
    /\ ses[s].pc = "await"
    /\ thr[s].pc = "done"
    /\ ses' = [ses EXCEPT ![s] =
                  Emit([@ EXCEPT !.pc = "recv", !.staged = NoFile],
                       <<AnswerFrame(thr[s].ret), StatusFrame("ready")>>)]
    /\ thr' = [thr EXCEPT ![s] = IdleThread]
    /\ UNCHANGED <<detect_vars, refiner, chat, agg, req, engine_vars, hist_vars>>

\* JobDone that answers the job and sends no status ready
JobDoneNoReady(s) ==
    /\ ses[s].pc = "await"
    /\ thr[s].pc = "done"
    /\ ses' = [ses EXCEPT ![s] =
                  Emit([@ EXCEPT !.pc = "recv", !.staged = NoFile, !.audio_chunks = <<>>,
                                 !.heard = <<>>],
                       <<AnswerFrame(thr[s].ret)>>)]
    /\ thr' = [thr EXCEPT ![s] = IdleThread]
    /\ UNCHANGED <<detect_vars, refiner, chat, agg, req, engine_vars, hist_vars>>

\* JobDone that answers with whatever job has finished, not with its own
JobDoneShared(s) ==
    /\ ses[s].pc = "await"
    /\ \E t \in DOMAIN thr :
          /\ thr[t].pc = "done"
          /\ ses' = [ses EXCEPT ![s] =
                        Emit([@ EXCEPT !.pc = "recv", !.staged = NoFile,
                                       !.audio_chunks = <<>>, !.heard = <<>>],
                             <<AnswerFrame(thr[t].ret), StatusFrame("ready")>>)]
          /\ thr' = [thr EXCEPT ![t] = IdleThread]
    /\ UNCHANGED <<detect_vars, refiner, chat, agg, req, engine_vars, hist_vars>>

\* the awaited run_in_executor completes: send_result; finally unlink;
\* except Exception: send_error; audio_chunks = []; send_status("ready")
JobDone(s) ==
    /\ ses[s].pc = "await"
    /\ thr[s].pc = "done"
    /\ ses' = [ses EXCEPT ![s] =
                  Emit([@ EXCEPT !.pc = "recv", !.staged = NoFile, !.audio_chunks = <<>>,
                                 !.heard = <<>>],
                       <<AnswerFrame(thr[s].ret), StatusFrame("ready")>>)]
    /\ thr' = [thr EXCEPT ![s] = IdleThread]
    /\ UNCHANGED <<detect_vars, refiner, chat, agg, req, engine_vars, hist_vars>>

Handler(s) ==
    \/ Accept(s)
    \/ RecvDisconnect(s) \/ RecvInvalidJson(s) \/ RecvNonObject(s)
    \/ RecvStart(s) \/ RecvStop(s) \/ RecvCancel(s) \/ RecvOtherType(s) \/ RecvBytes(s)
    \/ JobDone(s)

\* ---- the engine called from several worker threads at once
\* ------------------------------------------------------------------------
\* HTTP endpoints: main.load_model, main.transcribe,
\* file_transcribe.upload_and_transcribe, file_transcribe.transcribe_local_path
\* ------------------------------------------------------------------------
\* Path(filename).suffix of the names clients send; None: no filename given
Suffixes == {".wav", ".WAV", ".mp4", ".opus", ".exe", None}

\* converter.SUPPORTED_FORMATS
SUPPORTED_FORMATS == {"wav", "webm", "mp3", "ogg", "flac", "m4a", "opus"}

\* file_transcribe.SUPPORTED_EXTENSIONS
SUPPORTED_EXTENSIONS ==
    {".mp3", ".wav", ".webm", ".ogg", ".flac", ".m4a", ".aac",
     ".mp4", ".mkv", ".avi", ".mov", ".wma"}

\* str.lower() on the suffixes above
Lower(suffix) == IF suffix = ".WAV" THEN ".wav" ELSE suffix

\* str.lstrip(".") on the suffixes above
LStripDot(suffix) ==
    CASE suffix = ".wav" -> "wav"
      [] suffix = ".webm" -> "webm"
      [] suffix = ".mp4" -> "mp4"
      [] suffix = ".opus" -> "opus"
      [] suffix = ".exe" -> "exe"
      [] OTHER -> suffix

\* ext = Path(filename).suffix.lower().lstrip("."); ext if ext in SUPPORTED_FORMATS else None
get_format_from_filename(suffix) ==
    LET ext == LStripDot(Lower(suffix))
    IN  IF ext \in SUPPORTED_FORMATS THEN ext ELSE None

\* the uploads and the output formats clients ask for
Uploads == {<<>>, <<1>>}
OutputFormats == {"txt", "srt", "pdf"}

\* what Path(options.path) names
PathKinds == {"file", "dir", "absent"}

\* the handler of t can take a request: its previous one has been answered
Accepts(t) == req[t].pc # "await" /\ thr[t].pc = "idle"

Request(endpoint) == [NoRequest EXCEPT !.pc = "responded", !.endpoint = endpoint]

\* await loop.run_in_executor(None, engine.<op>, ...): the call starts in a
\* worker thread
run_in_executor(t, op, arg, audio) ==
    /\ thr' = [thr EXCEPT ![t] = [IdleThread EXCEPT !.pc = FirstPc(op), !.op = op,
                                                    !.arg = arg, !.audio = audio]]
    /\ overlapped' = (overlapped \/ \E u \in DOMAIN thr : thr[u].pc # "idle")
    /\ last_call' = IF overlapped' THEN NoCall ELSE last_call

\* the awaited call has returned (or raised) in the handler
Awaited(t, endpoint) ==
    /\ req[t].pc = "await"
    /\ req[t].endpoint = endpoint
    /\ thr[t].pc = "done"
    /\ thr' = [thr EXCEPT ![t] = IdleThread]
    /\ last_call' = IF overlapped THEN NoCall
                    ELSE [op |-> thr[t].op, arg |-> thr[t].arg, ret |-> thr[t].ret,
                          built |-> thr[t].built]
    /\ UNCHANGED <<detect_vars, refiner, chat, agg, ses, engine_vars, last_load, overlapped>>

\* the response to an exception no handler catches
InternalServerError == Response(500, "Internal Server Error")

\* POST /models/{name}/load that hands every name to the engine
HttpLoadModelUnchecked(t, name) ==
    /\ Accepts(t)
    /\ req' = [req EXCEPT ![t] = [Request("/models/load") EXCEPT !.pc = "await",
                                                                 !.name = name]]
    /\ run_in_executor(t, "switch", name, <<>>)
    /\ UNCHANGED <<detect_vars, refiner, chat, agg, ses, engine_vars, last_load>>

\* POST /models/{name}/load up to its await
HttpLoadModel(t, name) ==
    /\ Accepts(t)
    /\ IF name \notin ModelNames
       THEN /\ req' = [req EXCEPT ![t] =
                         [Request("/models/load") EXCEPT
                             !.name = name,
                             !.resp = [Response(400, "Unknown model")
                                          EXCEPT !.available = STT_MODELS]]]
            /\ UNCHANGED <<thr, hist_vars>>
       ELSE /\ req' = [req EXCEPT ![t] = [Request("/models/load") EXCEPT !.pc = "await",
                                                                         !.name = name]]
            /\ run_in_executor(t, "switch", name, <<>>)
            /\ UNCHANGED last_load
    /\ UNCHANGED <<detect_vars, refiner, chat, agg, ses, engine_vars>>

\* POST /models/{name}/load after its await
HttpLoadModelDone(t) ==
    /\ Awaited(t, "/models/load")
    /\ req' = [req EXCEPT ![t] =
                 [@ EXCEPT !.pc = "responded",
                           !.resp = IF thr[t].ret.kind = "raised" THEN InternalServerError
                                    ELSE IF thr[t].ret.ok THEN Response(200, "loaded")
                                    ELSE Response(500, "Failed to load model")]]

\* the handler writes its temp file and dispatches transcribe_file on it, or
\* the write raises before the try block: no file, or a file left behind
StageAndDispatch(t, r) ==
    \E outcome \in SaveOutcomes :
        IF outcome = "ok"
        THEN /\ req' = [req EXCEPT ![t] = [r EXCEPT !.pc = "await",
                                                    !.tmp = TempFile(r.bytes)]]
             /\ run_in_executor(t, "transcribe_file", "exists", r.bytes)
             /\ UNCHANGED last_load
        ELSE /\ req' = [req EXCEPT ![t] = [r EXCEPT !.leaked = (outcome = "partial"),
                                                    !.resp = InternalServerError]]
             /\ UNCHANGED <<thr, hist_vars>>

\* POST /transcribe without its test of audio_bytes
HttpTranscribeAnyLength(t, suffix, bytes) ==
    /\ Accepts(t)
    /\ LET fmt == get_format_from_filename(IF suffix = None THEN ".webm" ELSE suffix)
       IN  StageAndDispatch(t, [Request("/transcribe") EXCEPT
                                   !.suffix = suffix, !.bytes = bytes,
                                   !.name = IF fmt # None THEN fmt ELSE "webm"])
    /\ UNCHANGED <<detect_vars, refiner, chat, agg, ses, engine_vars>>

\* POST /transcribe up to its await: audio_bytes = await file.read();
\* filename = file.filename or "audio.webm";
\* fmt = get_format_from_filename(filename) or "webm"; save_temp_audio(...)
HttpTranscribe(t, suffix, bytes) ==
    /\ Accepts(t)
    /\ LET fmt == get_format_from_filename(IF suffix = None THEN ".webm" ELSE suffix)
           r == [Request("/transcribe") EXCEPT
                    !.suffix = suffix, !.bytes = bytes,
                    !.name = IF fmt # None THEN fmt ELSE "webm"]
       IN  IF bytes = <<>>
           THEN /\ req' = [req EXCEPT ![t] =
                             [r EXCEPT !.name = None,
                                       !.resp = Response(400, "Empty audio file")]]
                /\ UNCHANGED <<thr, hist_vars>>
           ELSE StageAndDispatch(t, r)
    /\ UNCHANGED <<detect_vars, refiner, chat, agg, ses, engine_vars>>

\* POST /transcribe after its await: the result as a dict; finally: tmp_path.unlink()
HttpTranscribeDone(t) ==
    /\ Awaited(t, "/transcribe")
    /\ req' = [req EXCEPT ![t] =
                 [@ EXCEPT !.pc = "responded",
                           !.tmp = NoFile,
                           !.resp = IF thr[t].ret.kind = "raised" THEN InternalServerError
                                    ELSE [Response(200, None) EXCEPT !.result = thr[t].ret]]]

\* POST /transcribe/file/upload up to its await
HttpUpload(t, suffix, bytes, output_format) ==
    /\ Accepts(t)
    /\ LET r == [Request("/transcribe/file/upload") EXCEPT
                    !.suffix = suffix, !.bytes = bytes, !.output_format = output_format]
       IN  IF output_format \notin {"txt", "srt", "vtt"}
           THEN /\ req' = [req EXCEPT ![t] =
                             [r EXCEPT !.resp = Response(400, "output_format must be txt, srt, or vtt")]]
                /\ UNCHANGED <<thr, hist_vars>>
           ELSE IF bytes = <<>>
           THEN /\ req' = [req EXCEPT ![t] = [r EXCEPT !.resp = Response(400, "Empty file")]]
                /\ UNCHANGED <<thr, hist_vars>>
           ELSE StageAndDispatch(t, [r EXCEPT !.name = IF suffix = None THEN ".webm"
                                                       ELSE suffix])
    /\ UNCHANGED <<detect_vars, refiner, chat, agg, ses, engine_vars>>

\* POST /transcribe/file/path without the test of the suffix
HttpPathAnyFormat(t, kind, suffix, bytes, output_format) ==
    /\ Accepts(t)
    /\ LET r == [Request("/transcribe/file/path") EXCEPT
                    !.suffix = suffix, !.bytes = bytes, !.output_format = output_format]
           rejected(status, detail) ==
               /\ req' = [req EXCEPT ![t] = [r EXCEPT !.resp = Response(status, detail)]]
               /\ UNCHANGED <<thr, hist_vars>>
       IN  IF output_format \notin {"txt", "srt", "vtt"}
           THEN rejected(400, "output_format must be txt, srt, or vtt")
           ELSE IF kind = "absent" THEN rejected(404, "File not found")
           ELSE IF kind # "file" THEN rejected(400, "Not a file")
           ELSE /\ req' = [req EXCEPT ![t] = [r EXCEPT !.pc = "await"]]
                /\ run_in_executor(t, "transcribe_file", "exists", bytes)
                /\ UNCHANGED last_load
    /\ UNCHANGED <<detect_vars, refiner, chat, agg, ses, engine_vars>>

\* POST /transcribe/file/path up to its await
HttpPath(t, kind, suffix, bytes, output_format) ==
    /\ Accepts(t)
    /\ LET r == [Request("/transcribe/file/path") EXCEPT
                    !.suffix = suffix, !.bytes = bytes, !.output_format = output_format]
           rejected(status, detail) ==
               /\ req' = [req EXCEPT ![t] = [r EXCEPT !.resp = Response(status, detail)]]
               /\ UNCHANGED <<thr, hist_vars>>
       IN  IF output_format \notin {"txt", "srt", "vtt"}
           THEN rejected(400, "output_format must be txt, srt, or vtt")
           ELSE IF kind = "absent" THEN rejected(404, "File not found")
           ELSE IF kind # "file" THEN rejected(400, "Not a file")
           ELSE IF Lower(suffix) \notin SUPPORTED_EXTENSIONS
           THEN rejected(400, "Unsupported format")
           ELSE /\ req' = [req EXCEPT ![t] = [r EXCEPT !.pc = "await"]]
                /\ run_in_executor(t, "transcribe_file", "exists", bytes)
                /\ UNCHANGED last_load
    /\ UNCHANGED <<detect_vars, refiner, chat, agg, ses, engine_vars>>

\* _transcribe_and_format after its await, for a request without refinement:
\* no text and no segments is an HTTPException; segments_to_srt and
\* segments_to_vtt index seg["start"], which a diagnostic segment lacks
FormatResponse(ret, output_format) ==
    IF ret.kind = "raised" THEN InternalServerError
    ELSE IF ret.text = "" /\ ret.segments = "empty"
    THEN Response(500, "Transcription produced no output")
    ELSE IF output_format \in {"srt", "vtt"} /\ ret.segments = "error"
    THEN InternalServerError
    ELSE [Response(200, None) EXCEPT !.result = ret]

\* the two file_transcribe endpoints after their await; upload_and_transcribe
\* then unlinks its temp file
HttpFormatDone(t) ==
    /\ \/ Awaited(t, "/transcribe/file/upload")
       \/ Awaited(t, "/transcribe/file/path")
    /\ req' = [req EXCEPT ![t] =
                 [@ EXCEPT !.pc = "responded",
                           !.tmp = NoFile,
                           !.resp = FormatResponse(thr[t].ret, req[t].output_format)]]

EngineConcInit == EngineInit({None})

EngineNext ==
    \E t \in ApiThreads :
        \/ \E c \in Calls : Call(t, c)
        \/ EngineStep(t)
        \/ Return(t)

SpecEngine == EngineConcInit /\ [][EngineNext]_vars

\* ---- the HTTP endpoints and the engine behind them: a client sends
\* requests to every endpoint, one after another; switch_model is also called
\* with the names in DirectSwitch by code that holds get_engine() without
\* going through the endpoint.  Nothing unloads the model while the server
\* runs.
DirectSwitch == {"whisper-9"}

Client == "t1"

RestNext ==
    \/ \E t \in {Client} :
        \/ \E name \in SwitchArgs : HttpLoadModel(t, name)
        \/ HttpLoadModelDone(t)
        \/ TranscribeStep(t) \/ SwBegin(t) \/ SwClear(t)
    \/ \E suffix \in Suffixes, bytes \in Uploads : HttpTranscribe(Client, suffix, bytes)
    \/ HttpTranscribeDone(Client)
    \/ \E suffix \in Suffixes, bytes \in Uploads, f \in OutputFormats :
          HttpUpload(Client, suffix, bytes, f)
    \/ \E kind \in PathKinds, suffix \in Suffixes \ {None}, bytes \in Uploads,
          f \in OutputFormats : HttpPath(Client, kind, suffix, bytes, f)
    \/ HttpFormatDone(Client)
    \/ \E name \in DirectSwitch :
          /\ req[Client].pc # "await"
          /\ Call(Client, [op |-> "switch", arg |-> name])
    \/ req[Client].pc # "await" /\ Return(Client)

SpecRest == EngineConcInit /\ [][RestNext]_vars

\* ---- _collect_segments applied to every sequence of at most MaxSegments
\* segments whose avg_logprob (in hundredths) is one of LogProbs
MaxSegments == 3

LogProbs == {-150, -100, -50, 0, 10}

SegmentSeqs ==
    UNION {[1..n -> {Segment(" Hello world", lp) : lp \in LogProbs}] : n \in 0..MaxSegments}

AggregateInit ==
    /\ nvidia_probe = CpuProbe
    /\ rocm_probe = NoRocm
    /\ gpu_info = detect_gpu(nvidia_probe, rocm_probe)
    /\ WhisperEngine__init__(None, gpu_info)
    /\ faster_whisper = TRUE
    /\ thr = [t \in Threads |-> IdleThread]
    /\ last_load = NoLoad
    /\ last_call = NoCall
    /\ overlapped = FALSE
    /\ ses = [x \in Sessions |-> NewSession]
    /\ req = [t \in ApiThreads |-> NoRequest]
    /\ refiner = NoRefiner
    /\ chat = NoChat
    /\ \E segs \in SegmentSeqs, lang \in {"", "en"} :
          agg = [NoAggregation EXCEPT !.out = [segments |-> segs, language |-> lang]]

Collect ==
    /\ agg.ret = NoRet
    /\ agg' = [agg EXCEPT !.ret = _collect_segments(agg.out, target_model)]
    /\ UNCHANGED <<detect_vars, refiner, chat, ses, req, engine_vars, thr, hist_vars>>

AggregateNext == Collect

SpecAggregate == AggregateInit /\ [][AggregateNext]_vars

\* ---- one ClaudeAPIBackend and the calls made on it.  send has no await
\* in its body, so a call runs to its return before the event loop runs
\* anything else.
MaxHistory == 6

Texts == {"Question 1", "Question 2"}

\* what client.messages.create does: raises, or returns a response whose
\* text blocks concatenate to one of these
ApiReplies == {"Answer 1", ""}

Entry(role, content) == [role |-> role, content |-> content]

SendResult(success, message, response) ==
    [kind |-> "result", success |-> success, message |-> message, response |-> response]

\* an except clause that leaves the history alone
PopNothing(h) == h

\* except Exception: if history and history[-1]["role"] == "user": history.pop()
PopFailed(h) ==
    IF h # <<>> /\ h[Len(h)].role = "user" THEN SubSeq(h, 1, Len(h) - 1) ELSE h

send(text) ==
    /\ Len(chat.history) + 2 <= MaxHistory
    /\ LET c == [chat EXCEPT !.text = text, !.prior = chat.history]
           appended == Append(chat.history, Entry("user", text))
           failed == [c EXCEPT !.history = PopFailed(appended),
                               !.result = SendResult(FALSE, "Claude API error", "")]
       IN  IF ~chat.api_key
           THEN chat' = [c EXCEPT !.result =
                            SendResult(FALSE, "ANTHROPIC_API_KEY not configured", "")]
           ELSE IF ~chat.client /\ ~chat.anthropic
           THEN chat' = failed
           ELSE \/ chat' = [failed EXCEPT !.client = TRUE]
                \/ \E reply \in ApiReplies :
                      chat' = [c EXCEPT
                                  !.client = TRUE,
                                  !.history = Append(appended, Entry("assistant", reply)),
                                  !.result = SendResult(TRUE, "Response received from Claude API",
                                                        reply)]
    /\ UNCHANGED <<detect_vars, refiner, ses, req, agg, engine_vars, thr, hist_vars>>

clear_history ==
    /\ chat.history # <<>>
    /\ chat' = [chat EXCEPT !.history = <<>>, !.text = None, !.prior = <<>>,
                            !.result = NoSendResult]
    /\ UNCHANGED <<detect_vars, refiner, ses, req, agg, engine_vars, thr, hist_vars>>

ChatInit ==
    /\ nvidia_probe = CpuProbe
    /\ rocm_probe = NoRocm
    /\ gpu_info = detect_gpu(nvidia_probe, rocm_probe)
    /\ WhisperEngine__init__(None, gpu_info)
    /\ faster_whisper = TRUE
    /\ thr = [t \in Threads |-> IdleThread]
    /\ last_load = NoLoad
    /\ last_call = NoCall
    /\ overlapped = FALSE
    /\ ses = [x \in Sessions |-> NewSession]
    /\ req = [t \in ApiThreads |-> NoRequest]
    /\ refiner = NoRefiner
    /\ agg = NoAggregation
    /\ \E api_key \in BOOLEAN, anthropic \in BOOLEAN :
          chat = ClaudeAPIBackend__init__(api_key, anthropic)

ChatNext == (\E text \in Texts : send(text)) \/ clear_history

SpecChat == ChatInit /\ [][ChatNext]_vars

\* ---- one streaming connection and the engine behind it: the only engine
\* calls are the transcriptions the connection dispatches, one at a time
StreamSessions == {"s1"}

StreamNext ==
    \E s \in StreamSessions :
        \/ \E m \in ClientMessages : ClientSend(s, m)
        \/ ClientClose(s)
        \/ Handler(s)
        \/ TranscribeStep(s)

SpecStream == EngineConcInit /\ [][StreamNext]_vars

\* ---- two streaming connections served by the one event loop and the one
\* engine; each client speaks with its own audio and sends start, chunks,
\* stop and cancel in any order, the next message once the previous is taken
PairSessions == {"s1", "s2"}

MaxSent == 3

VoiceOf(s) == IF s = "s1" THEN <<1>> ELSE <<2, 3>>

PairMessages(s) ==
    {TextMsg("object", ty) : ty \in {"start", "stop", "cancel"}} \cup {BytesMsg(VoiceOf(s))}

PairSend(s, m) ==
    /\ ses[s].pc \in {"recv", "await"}
    /\ ses[s].inbox = <<>>
    /\ ses[s].sent < MaxSent
    /\ ses' = [ses EXCEPT ![s] = [@ EXCEPT !.inbox = <<Stamped(m, s)>>, !.sent = @ + 1]]
    /\ UNCHANGED <<detect_vars, refiner, chat, agg, req, engine_vars, thr, hist_vars>>

\* a handler that runs transcribe_file in the event loop itself: while one
\* connection's job runs no other handler makes a step
PairHandlerBlocking(s) ==
    /\ \A x \in DOMAIN ses : x # s => ses[x].pc # "await"
    /\ \/ Accept(s)
       \/ RecvStart(s) \/ RecvStop(s) \/ RecvCancel(s) \/ RecvBytes(s)
       \/ JobDone(s)

\* the handler's steps for the messages of PairMessages
PairHandler(s) ==
    \/ Accept(s)
    \/ RecvStart(s) \/ RecvStop(s) \/ RecvCancel(s) \/ RecvBytes(s)
    \/ JobDone(s)

\* the steps of transcribe_file calls that run side by side
PairStep(t) == TranscribeStep(t) \/ LdDel(t) \/ LdNone(t)

PairNext ==
    \E s \in PairSessions :
        \/ \E m \in PairMessages(s) : PairSend(s, m)
        \/ PairHandler(s)
        \/ PairStep(s)

SpecPair == EngineConcInit /\ [][PairNext]_vars

\* the same two connections, kept open, with the scheduling of the code: the
\* event loop resumes every handler whose awaited receive or job has
\* completed, and a worker thread that has taken a job runs it to its end
SpecPairLive ==
    /\ EngineConcInit
    /\ [][PairNext]_vars
    /\ \A s \in PairSessions : WF_vars(PairHandler(s)) /\ WF_vars(PairStep(s))

\* ------------------------------------------------------------------------
\* refiner_api.test_refiner, file_transcribe._transcribe_and_format,
\* Refiner.process
\* ------------------------------------------------------------------------
\* request.text: absent (the sample is used), words, or blanks only
RefineTexts == {None, "um so basically", " "}

\* Refiner.process up to its first suspension: the provider of the text it
\* returns at once, or "suspended" when provider.refine awaits its HTTP
\* call or subprocess; starts tells whether _get_provider and the provider
\* get that far without raising
process(text, enabled, starts) ==
    IF text = " " THEN "none"
    ELSE IF ~enabled THEN "disabled"
    ELSE IF ~starts THEN "fallback"
    ELSE "suspended"

RefineJob(endpoint, was_enabled, outcome) ==
    [pc |-> IF outcome = "suspended" THEN "await" ELSE "done", endpoint |-> endpoint,
     was_enabled |-> was_enabled,
     outcome |-> IF outcome = "suspended" THEN None ELSE outcome]

\* POST /refiner/test up to the await of provider.refine, or, when process
\* returns without suspending, to the end: was_enabled = refiner._enabled;
\* refiner._enabled = True; try: await refiner.process(...);
\* finally: refiner._enabled = was_enabled
test_refiner(r, text, starts) ==
    /\ refiner.job[r].pc = "none"
    /\ LET was_enabled == refiner.enabled
           outcome == process(text, TRUE, starts)
       IN  refiner' = [refiner EXCEPT
                          !.enabled = IF outcome = "suspended" THEN TRUE ELSE was_enabled,
                          !.job[r] = RefineJob("test", was_enabled, outcome)]
    /\ UNCHANGED <<detect_vars, chat, agg, req, ses, engine_vars, thr, hist_vars>>

\* provider.refine returns or raises (process turns the exception into the
\* fallback result); finally: refiner._enabled = was_enabled
test_refiner_resumed(r, outcome) ==
    /\ refiner.job[r].pc = "await"
    /\ refiner' = [refiner EXCEPT
                      !.enabled = refiner.job[r].was_enabled,
                      !.job[r] = [@ EXCEPT !.pc = "done", !.outcome = outcome]]
    /\ UNCHANGED <<detect_vars, chat, agg, req, ses, engine_vars, thr, hist_vars>>

\* _transcribe_and_format with refine and output_format "txt", after the
\* transcription: was_enabled = refiner._enabled; refiner._enabled = True;
\* refiner.process(..., prompt_override=custom_prompt) raises TypeError at
\* the call, process having no such parameter; finally restores the flag.
\* Nothing is awaited in between.
_transcribe_and_format_refine(r) ==
    /\ refiner.job[r].pc = "none"
    /\ refiner' = [refiner EXCEPT
                      !.job[r] = RefineJob("file", refiner.enabled, "TypeError")]
    /\ UNCHANGED <<detect_vars, chat, agg, req, ses, engine_vars, thr, hist_vars>>

\* the response is sent; the client may send its next request
RefineResponded(r) ==
    /\ refiner.job[r].pc = "done"
    /\ refiner' = [refiner EXCEPT !.job[r] = NoRefineJob]
    /\ UNCHANGED <<detect_vars, chat, agg, req, ses, engine_vars, thr, hist_vars>>

RefinerInit ==
    /\ nvidia_probe = CpuProbe
    /\ rocm_probe = NoRocm
    /\ gpu_info = detect_gpu(nvidia_probe, rocm_probe)
    /\ WhisperEngine__init__(None, gpu_info)
    /\ faster_whisper = TRUE
    /\ thr = [t \in Threads |-> IdleThread]
    /\ last_load = NoLoad
    /\ last_call = NoCall
    /\ overlapped = FALSE
    /\ ses = [x \in Sessions |-> NewSession]
    /\ req = [t \in ApiThreads |-> NoRequest]
    /\ chat = NoChat
    /\ agg = NoAggregation
    /\ \E enabled \in BOOLEAN : refiner = Refiner__init__(enabled)

RefinerNext ==
    \E r \in RefinerRequests :
        \/ \E text \in RefineTexts, starts \in BOOLEAN : test_refiner(r, text, starts)
        \/ \E outcome \in {"refined", "fallback"} : test_refiner_resumed(r, outcome)
        \/ _transcribe_and_format_refine(r)
        \/ RefineResponded(r)

SpecRefiner == RefinerInit /\ [][RefinerNext]_vars

\* ---- one engine from its construction on: get_engine(model_name) with a
\* known, an unknown or no model name, on a machine with no GPU or with an
\* NVIDIA GPU of little, medium or much memory, then calls one after another
\* (load_model finds a model to delete only when calls overlap)
Requests == {None, "medium", "whisper-9"}

GpuProbes ==
    {CpuProbe}
    \cup {[kind |-> "output", exc |-> None,
           parts |-> <<[isint |-> FALSE, val |-> 0], [isint |-> TRUE, val |-> v]>>] :
             v \in {1500, 5000, 10240}}

LifecycleInit ==
    /\ nvidia_probe \in GpuProbes
    /\ rocm_probe = NoRocm
    /\ gpu_info = detect_gpu(nvidia_probe, rocm_probe)
    /\ \E requested \in Requests : WhisperEngine__init__(requested, gpu_info)
    /\ faster_whisper \in BOOLEAN
    /\ thr = [t \in Threads |-> IdleThread]
    /\ last_load = NoLoad
    /\ last_call = NoCall
    /\ overlapped = FALSE
    /\ ses = [x \in Sessions |-> NewSession]
    /\ req = [t \in ApiThreads |-> NoRequest]
    /\ refiner = NoRefiner
    /\ chat = NoChat
    /\ agg = NoAggregation

LifecycleNext ==
    \/ \E c \in Calls : Call(Client, c)
    \/ TranscribeStep(Client)
    \/ SwBegin(Client) \/ SwClear(Client)
    \/ UnCheck(Client) \/ UnDel(Client) \/ UnNone(Client)
    \/ Return(Client)

SpecLifecycle == LifecycleInit /\ [][LifecycleNext]_vars

\* ------------------------------------------------------------------------
\* Specification of detection alone
\* ------------------------------------------------------------------------
DetectInit ==
    /\ nvidia_probe \in NvidiaOutcomes
    /\ rocm_probe \in RocmOutcomes
    /\ gpu_info = NotRun
    /\ model = NoModel
    /\ model_name = None
    /\ target_model = DefaultProfile.recommended_model
    /\ downloading = FALSE
    /\ download_progress = 0
    /\ faster_whisper = TRUE
    /\ thr = [t \in Threads |-> IdleThread]
    /\ last_load = NoLoad
    /\ last_call = NoCall
    /\ overlapped = FALSE
    /\ ses = [x \in Sessions |-> NewSession]
    /\ req = [t \in ApiThreads |-> NoRequest]
    /\ refiner = NoRefiner
    /\ chat = NoChat
    /\ agg = NoAggregation

Detect ==
    /\ gpu_info = NotRun
    /\ gpu_info' = detect_gpu(nvidia_probe, rocm_probe)
    /\ UNCHANGED <<nvidia_probe, rocm_probe, engine_vars, thr, hist_vars, ses, req, agg, chat, refiner>>

DetectNext == Detect

SpecDetect == DetectInit /\ [][DetectNext]_vars

\* ========================================================================
\* Properties
\* ========================================================================

\* no engine method is executing
Quiescent == \A t \in DOMAIN thr : ~Executing(t)

\* model.transcribe has been called and its segments are not yet collected
InFlight(t) == thr[t].pc \in {"tf_name", "tf_iter"}

\* load_model past its no-op test, switch_model past its validation, or
\* unload_model past its None test
Mutating(t) ==
    thr[t].pc \in {"ld_begin", "ld_del", "ld_none", "ld_construct", "ld_store", "ld_name",
                   "sw_clear", "un_del", "un_none"}

\* C1: load/switch/unload never execute while a transcription is in flight
\* on the engine: no thread is inside the mutating part of load_model,
\* switch_model or unload_model while another thread's inference runs.
C1_MutualExclusion ==
    \A t, u \in DOMAIN thr : t # u => ~(InFlight(t) /\ Mutating(u))

\* thread t has finished the second of two switch_model(x) calls made one
\* right after the other, no call overlapping another, the first having
\* returned True
SecondSwitchDone(t) ==
    /\ thr[t].pc = "done"
    /\ thr[t].op = "switch"
    /\ ~overlapped
    /\ last_call.op = "switch"
    /\ last_call.arg = thr[t].arg
    /\ last_call.ret.ok

\* C2 (as claimed): switch(x) right after a successful switch(x) returns
\* success without constructing a model.
C2_SecondSwitchNoOp ==
    \A t \in DOMAIN thr :
        SecondSwitchDone(t) => thr[t].ret.ok /\ thr[t].built = 0

\* C2 (amended): switch(x) right after a successful switch(x) releases the
\* resident model and constructs it again: when the construction succeeds the
\* call returns True with x resident and one more model constructed, when it
\* fails the call returns False and no model is resident.
C2_SecondSwitchReloads ==
    \A t \in DOMAIN thr :
        SecondSwitchDone(t) =>
            IF thr[t].ret.ok
            THEN /\ thr[t].built = 1
                 /\ IsObject(model) /\ model.name = thr[t].arg
                 /\ model_name = thr[t].arg
            ELSE /\ thr[t].built = 0
                 /\ model = NoModel /\ model_name = None

C2_Witness ==
    \E t \in DOMAIN thr : SecondSwitchDone(t) /\ thr[t].ret.ok /\ thr[t].built = 1

\* C3 (as claimed): after any sequence of calls, none overlapping another,
\* the resident model identifier equals the target iff downloading is false
\* and the last load/switch succeeded.
C3_CurrentIsTargetIffLastLoadOk ==
    (Quiescent /\ ~overlapped) =>
        ((model_name = target_model)
            <=> (~downloading /\ last_load.result = "ok"))

\* C3 (amended): between calls made one after another, downloading is false
\* and the resident model identifier is null or the target; it is the target
\* iff the most recent load_model return was True and no unload released
\* the model since (a rejected switch changes nothing).
C3_CurrentIsTargetIffLoadedAndKept ==
    (Quiescent /\ ~overlapped) =>
        /\ ~downloading
        /\ model_name \in {None, target_model}
        /\ (model_name = target_model)
              <=> (last_load.result = "ok" /\ ~last_load.unloaded)

C3_Witness ==
    /\ Quiescent
    /\ last_load.result = "ok"
    /\ last_load.unloaded
    /\ model_name = None
    /\ ~overlapped

\* C4: at most one model object is alive at any instant.
C4_OneModelResident == Cardinality(LiveObjects) <= 1

\* the result of a transcription that failed
FailedTranscription(ret) ==
    \/ ret.kind = "raised"
    \/ ret.kind = "result" /\ ret.language = "unknown"

\* C8: a transcription fails only through a failure of its own call (its
\* own model construction, its own file, its own backend run), never
\* through what another caller does to the engine.
C8_FailureIsOwn ==
    \A t \in DOMAIN thr :
        (thr[t].pc = "done" /\ thr[t].op = "transcribe_file"
            /\ FailedTranscription(thr[t].ret)) => thr[t].fault

\* the probe outcomes C9 lists: tool missing, non-zero exit, timeout, or any output
ListedProbeErrors == {"FileNotFoundError", "CalledProcessError", "TimeoutExpired"}

\* C9: for every listed outcome of the two probes detect_gpu returns a
\* profile and does not raise.
C9_DetectNeverRaises ==
    (/\ gpu_info # NotRun
     /\ nvidia_probe.kind = "raise" => nvidia_probe.exc \in ListedProbeErrors
     /\ rocm_probe.kind = "raise" => rocm_probe.exc \in ListedProbeErrors)
        => gpu_info.raised = None

\* ---- /ws/audio

\* the handler has just answered a stop whose job was dispatched, and a
\* cancel the client sent while the job ran is waiting in the connection
CancelledWhileProcessing(s) ==
    /\ ses[s].pc = "recv"
    /\ ses[s].last.type = "stop"
    /\ \E i \in DOMAIN ses[s].inbox :
          /\ ses[s].inbox[i].type = "cancel"
          /\ ses[s].inbox[i].arrived = "processing"

\* C5: when a cancel arrives while the session's job is dispatched, no
\* result frame for that job is sent to the session.
C5_CancelDiscardsResult ==
    \A s \in StreamSessions :
        CancelledWhileProcessing(s) =>
            \A i \in DOMAIN ses[s].frames : ses[s].frames[i].type # "result"

\* a text frame that is not valid JSON, or whose JSON is not an object
\* carrying one of the types start, stop, cancel
Malformed(m) ==
    /\ m.kind = "text"
    /\ \/ m.json \in {"invalid", "array"}
       \/ m.type \notin {"start", "stop", "cancel"}

\* C6: whenever the handler takes a malformed control message from a client
\* that is still connected, it sends an error frame, the recording flag and
\* the audio buffer are unchanged, and it goes on receiving.
C6_MalformedAnswered ==
    [][\A s \in StreamSessions :
          (/\ ses[s].pc = "recv"
           /\ ses[s].open
           /\ ses[s].inbox # <<>>
           /\ Malformed(Head(ses[s].inbox))
           /\ Len(ses'[s].inbox) < Len(ses[s].inbox))
          => /\ ses'[s].pc = "recv"
             /\ ses'[s].recording = ses[s].recording
             /\ ses'[s].audio_chunks = ses[s].audio_chunks
             /\ \E i \in DOMAIN ses'[s].frames : ses'[s].frames[i].type = "error"]_vars

\* C7: a streaming job whose inference failed in the engine is never
\* answered with a result frame (the file a session stages exists, so an
\* error segment in a session's result comes from the backend raising).
C7_InferenceFailureIsErrorFrame ==
    \A s \in StreamSessions :
        \A i \in DOMAIN ses[s].frames :
            ses[s].frames[i].type = "result"
                => ses[s].frames[i].result.segments # "error"

NonEmpty(chunk) == chunk # <<>>

\* C10 (as claimed): while RECORDING every binary chunk received, of any
\* length, is in the buffer, in arrival order.
C10_EveryChunkAppended ==
    \A s \in StreamSessions :
        ses[s].recording => ses[s].audio_chunks = ses[s].heard

\* C10 (amended): while RECORDING every non-empty binary chunk received is
\* appended to the buffer in arrival order, a zero-length chunk is ignored,
\* and the state stays RECORDING; when stop stages the audio, the staged
\* bytes are the concatenation of all chunks received since the last start.
C10_NonEmptyChunksAppended ==
    \A s \in StreamSessions :
        /\ (ses[s].recording \/ ses[s].pc = "await")
              => ses[s].audio_chunks = SelectSeq(ses[s].heard, NonEmpty)
        /\ (ses[s].last.kind = "bytes" /\ ses[s].heard # <<>>)
              => ses[s].recording /\ ses[s].pc = "recv"
        /\ ses[s].staged.present => ses[s].staged.content = Concat(ses[s].heard)

C10_Witness ==
    \E s \in StreamSessions :
        /\ ses[s].staged.present
        /\ Len(ses[s].heard) = 2
        /\ \E i \in DOMAIN ses[s].heard : ses[s].heard[i] = <<>>

\* the handler has taken a message of the given type in the given protocol
\* state, has answered it completely and is receiving again
Answered(s, type, state) ==
    /\ ses[s].pc = "recv"
    /\ ses[s].last.type = type
    /\ ses[s].prior.state = state

NoAudioFrames ==
    <<StatusFrame("processing"), ErrorFrame("No audio data received"), StatusFrame("ready")>>

\* C11: start, then stop with no chunk in between, is answered with exactly
\* status processing, error, status ready; no job is dispatched and no file
\* is staged.
C11_StopWithoutChunks ==
    \A s \in StreamSessions :
        (Answered(s, "stop", "recording") /\ ses[s].prior.heard = <<>>)
            => /\ ses[s].frames = NoAudioFrames
               /\ thr[s].pc = "idle"
               /\ ~ses[s].staged.present
               /\ ~ses[s].recording

C11_Witness ==
    \E s \in StreamSessions :
        /\ Answered(s, "stop", "recording")
        /\ ses[s].prior.heard = <<>>
        /\ ses[s].frames = NoAudioFrames

\* the frames are status processing, one result frame with a non-empty
\* language, status ready
ResultFrames(frames) ==
    /\ Len(frames) = 3
    /\ frames[1] = StatusFrame("processing")
    /\ frames[2].type = "result"
    /\ frames[2].result.language # ""
    /\ frames[3] = StatusFrame("ready")

FailedFrames ==
    <<StatusFrame("processing"), ErrorFrame("Transcription failed"), StatusFrame("ready")>>

\* C12 (as claimed): start, one or more chunks, stop is answered with status
\* processing, one result frame with a non-empty language, status ready,
\* and the buffer is empty afterwards.
C12_ChunksThenStopYieldResult ==
    \A s \in StreamSessions :
        (Answered(s, "stop", "recording") /\ ses[s].prior.heard # <<>>)
            => ResultFrames(ses[s].frames) /\ ses[s].audio_chunks = <<>>

\* C12 (amended): start, chunks of which at least one is not empty, stop is
\* answered with status processing, then one result frame with a non-empty
\* language, or one error frame when staging the audio raised, then status
\* ready; chunks that are all empty are answered as a stop without audio;
\* the buffer is empty afterwards.
C12_NonEmptyChunksThenStop ==
    \A s \in StreamSessions :
        (Answered(s, "stop", "recording") /\ ses[s].prior.heard # <<>>)
            => /\ ses[s].audio_chunks = <<>>
               /\ IF SelectSeq(ses[s].prior.heard, NonEmpty) = <<>>
                  THEN ses[s].frames = NoAudioFrames
                  ELSE ResultFrames(ses[s].frames) \/ ses[s].frames = FailedFrames

C12_Witness ==
    \E s \in StreamSessions :
        /\ Answered(s, "stop", "recording")
        /\ Len(ses[s].prior.heard) = 2
        /\ ResultFrames(ses[s].frames)
        /\ ses[s].frames[2].result.language = "en"
        /\ ses[s].frames[2].result.text = ""

\* C13: a cancel received while RECORDING is answered with the single frame
\* status ready, leaves the session READY with an empty buffer, dispatches
\* no job and stages no file, however many chunks were buffered.
C13_CancelWhileRecording ==
    \A s \in StreamSessions :
        Answered(s, "cancel", "recording")
            => /\ ses[s].frames = <<StatusFrame("ready")>>
               /\ ~ses[s].recording
               /\ ses[s].audio_chunks = <<>>
               /\ thr[s].pc = "idle"
               /\ ~ses[s].staged.present

C13_Witness ==
    \E s \in StreamSessions :
        /\ Answered(s, "cancel", "recording")
        /\ Len(SelectSeq(ses[s].prior.heard, NonEmpty)) = 2
        /\ ses[s].frames = <<StatusFrame("ready")>>

\* C14: a binary chunk received while the session is not RECORDING (the
\* handler receives nothing while PROCESSING: a chunk that arrives then is
\* received in READY) is dropped: no frame, state READY, buffer empty.
C14_ChunkOutsideRecordingDropped ==
    \A s \in StreamSessions :
        /\ ses[s].prior.state # "processing"
        /\ (ses[s].pc = "recv" /\ ses[s].last.kind = "bytes"
                /\ ses[s].prior.state = "ready")
              => /\ ses[s].frames = <<>>
                 /\ ~ses[s].recording
                 /\ ses[s].audio_chunks = <<>>
                 /\ ses[s].heard = ses[s].prior.heard
        /\ (ses[s].pc = "recv" /\ ~ses[s].recording) => ses[s].audio_chunks = <<>>

C14_Witness ==
    \E s \in StreamSessions :
        /\ ses[s].pc = "recv"
        /\ ses[s].last.kind = "bytes"
        /\ ses[s].last.data # <<>>
        /\ ses[s].last.arrived = "processing"
        /\ ses[s].prior.state = "ready"
        /\ ses[s].audio_chunks = <<>>

\* C15: once the handler has finished with a stop (it is receiving again, or
\* it has returned), no temporary file it created remains.
C15_TempFileRemoved ==
    \A s \in StreamSessions :
        ses[s].pc \in {"recv", "closed"} => ~ses[s].staged.present /\ ~ses[s].leaked

C19_CloseDestroysSession ==
    [][\A s \in StreamSessions :
          /\ ~ses[s].open
                => /\ ses'[s].frames \in {ses[s].frames, <<>>}
                   /\ thr[s].pc = "idle" => thr'[s].pc = "idle"
          /\ ses'[s].pc = "closed"
                => /\ ses'[s].audio_chunks = <<>>
                   /\ ~ses'[s].recording
                   /\ thr'[s].pc = "idle"
                   /\ ses'[s].inbox = <<>>]_vars

C19_Witness ==
    \E s \in StreamSessions :
        /\ ses[s].pc = "closed"
        /\ ses[s].last.kind = "disconnect"
        /\ ses[s].prior.state = "recording"
        /\ ses[s].prior.heard # <<>>
        /\ thr[s].pc = "idle"

\* C20: nothing is sent before the connection is accepted, and status ready
\* is the first frame, sent before any client message is taken.
C20_ReadyFirst ==
    \A s \in StreamSessions :
        /\ ses[s].pc = "new" => ses[s].frames = <<>> /\ ses[s].last = NoMsg
        /\ (ses[s].pc = "recv" /\ ses[s].last = NoMsg)
              => ses[s].frames = <<StatusFrame("ready")>>

C20_Witness ==
    \E s \in StreamSessions :
        /\ ses[s].pc = "recv"
        /\ ses[s].last = NoMsg
        /\ ses[s].inbox # <<>>
        /\ ses[s].frames = <<StatusFrame("ready")>>

\* ---- several connections

\* C16: while connection a's job runs in the worker pool, the handler of
\* another connection b that has a message waiting can take and answer it.
C16_OtherSessionResponsive ==
    \A a, b \in PairSessions :
        (/\ a # b
         /\ ses[a].pc = "await"
         /\ thr[a].pc # "done"
         /\ ses[b].pc = "recv"
         /\ ses[b].inbox # <<>>)
            => ENABLED PairHandler(b)

C16_Witness ==
    \E a, b \in PairSessions :
        /\ a # b
        /\ ses[a].pc = "await"
        /\ thr[a].pc = "tf_iter"
        /\ Answered(b, "cancel", "recording")
        /\ a \in ses[b].last.busy
        /\ ses[b].frames = <<StatusFrame("ready")>>

\* C17: a result frame a connection receives answers the stop it sent last
\* and was computed from the audio that connection buffered, and the job a
\* connection awaits reads the file that connection staged.
C17_ResultFromOwnAudio ==
    \A s \in PairSessions :
        /\ \A i \in DOMAIN ses[s].frames :
              ses[s].frames[i].type = "result"
                 => /\ ses[s].last.type = "stop"
                    /\ ses[s].frames[i].result.audio = Concat(ses[s].prior.heard)
        /\ ses[s].pc = "await"
              => /\ thr[s].audio = ses[s].staged.content
                 /\ ses[s].staged.content = Concat(ses[s].heard)

\* a job dispatched later has been answered while the earlier one still runs
C17_Witness ==
    \E a, b \in PairSessions :
        /\ a # b
        /\ ses[a].pc = "await"
        /\ Answered(b, "stop", "recording")
        /\ a \in ses[b].last.busy
        /\ ResultFrames(ses[b].frames)
        /\ ses[b].frames[2].result.audio = VoiceOf(b)

\* thread t has returned from a call, no call overlapping another, in which
\* load_model was entered for a model of the catalogue and the import of the
\* backend or the construction of the model raised
ConstructionFailed(t) ==
    /\ thr[t].pc = "done"
    /\ ~overlapped
    /\ thr[t].fault
    /\ thr[t].built = 0
    /\ thr[t].op = "switch" => thr[t].arg \in ModelNames
    /\ last_load.result = "failed"

\* C21: when the construction of the model fails during load_model (called
\* directly, by switch_model, or by a transcription that loads lazily) the
\* call does not raise: load and switch return False, the transcription
\* returns its failure result; no model is resident afterwards and
\* downloading is false.
C21_ConstructionFailure ==
    \A t \in DOMAIN thr :
        ConstructionFailed(t) =>
            /\ thr[t].ret.kind # "raised"
            /\ thr[t].op \in {"load", "switch"} => thr[t].ret = BoolRet(FALSE)
            /\ thr[t].op \in {"transcribe_file", "transcribe_audio"}
                  => thr[t].ret.kind = "result"
            /\ model = NoModel
            /\ model_name = None
            /\ ~downloading

\* a switch whose construction failed right after a call that had left a
\* model resident
C21_Witness ==
    \E t \in DOMAIN thr :
        /\ ConstructionFailed(t)
        /\ faster_whisper
        /\ thr[t].op = "switch"
        /\ last_call.op \in {"load", "switch", "transcribe_file"}
        /\ last_call.built = 1

\* the members of a list
Members(seq) == {seq[i] : i \in DOMAIN seq}

\* C22: switch_model with a name outside the catalogue returns False in its
\* first step and leaves the resident model, its name, the target, the
\* downloading flag and the progress as they were; POST /models/{name}/load
\* answers such a name with 400 and the list of all catalogue names, and
\* starts no engine call.
C22_UnknownModelRejected ==
    [][/\ \A t \in DOMAIN thr :
            (thr[t].pc = "sw_begin" /\ thr[t].arg \notin ModelNames /\ thr'[t] # thr[t])
                => /\ thr'[t].pc = "done"
                   /\ thr'[t].ret = BoolRet(FALSE)
                   /\ UNCHANGED engine_vars
       /\ \A t \in DOMAIN req :
            (/\ req[t].pc # "await"
             /\ req'[t].pc # "none"
             /\ req'[t].endpoint = "/models/load"
             /\ req'[t].name \notin ModelNames
             /\ req'[t] # req[t])
                => /\ req'[t].pc = "responded"
                   /\ req'[t].resp.status = 400
                   /\ Members(req'[t].resp.available) = ModelNames
                   /\ UNCHANGED <<engine_vars, thr>>]_vars

\* with a model resident, the endpoint has rejected a name and a direct
\* switch_model call with that name has returned
C22_Witness ==
    /\ IsObject(model)
    /\ req[Client].pc = "responded"
    /\ req[Client].endpoint = "/models/load"
    /\ req[Client].name \notin ModelNames
    /\ req[Client].resp.status = 400
    /\ thr[Client].pc = "done"
    /\ thr[Client].op = "switch"
    /\ thr[Client].arg \notin ModelNames

\* the result of a transcription whose load_model returned True
LoadSucceeded(ret) ==
    ret.kind = "result" /\ ~(ret.language = "unknown" /\ ret.segments = "empty")

\* C23: load_model entered while the resident model is the target returns
\* True at once: downloading, progress, the model and its name stay as they
\* are and nothing is constructed; so a transcription that directly follows
\* a transcription whose load succeeded constructs no model.
C23_LoadNoOp ==
    [][/\ \A t \in DOMAIN thr :
            (/\ thr[t].pc = "ld_check"
             /\ IsObject(model) /\ model_name = target_model
             /\ thr'[t] # thr[t])
                => /\ UNCHANGED engine_vars
                   /\ thr'[t].built = 0
                   /\ thr[t].op = "load" => thr'[t].pc = "done" /\ thr'[t].ret = BoolRet(TRUE)
                   /\ thr[t].op = "transcribe_file"
                        => \/ thr'[t].pc = "tf_call"
                           \/ thr'[t].pc = "done" /\ LoadSucceeded(thr'[t].ret)
       /\ \A t \in DOMAIN thr :
            (/\ thr[t].pc = "done" /\ thr[t].op = "transcribe_file"
             /\ ~overlapped
             /\ last_call.op = "transcribe_file" /\ LoadSucceeded(last_call.ret))
                => thr[t].built = 0 /\ LoadSucceeded(thr[t].ret)]_vars

\* the second of two transcriptions has returned text without constructing
\* a model, the first having constructed it
C23_Witness ==
    \E t \in DOMAIN thr :
        /\ thr[t].pc = "done" /\ thr[t].op = "transcribe_file"
        /\ ~overlapped
        /\ last_call.op = "transcribe_file" /\ last_call.built = 1
        /\ thr[t].built = 0
        /\ thr[t].ret.text # ""

\* thread t has returned from a transcription, no call overlapping another,
\* whose load_model returned False
LoadFailedTranscription(t) ==
    /\ thr[t].pc = "done"
    /\ thr[t].op \in {"transcribe_file", "transcribe_audio"}
    /\ ~overlapped
    /\ last_load.result = "failed"

\* C24: when load_model fails, transcribe_file and transcribe_audio return a
\* result (they do not raise) with text "", confidence 0.0, no segments and
\* model_used the target model, and self._model.transcribe is not called.
C24_LoadFailureResult ==
    \A t \in DOMAIN thr :
        LoadFailedTranscription(t) =>
            /\ thr[t].ret.kind = "result"
            /\ thr[t].ret.text = ""
            /\ thr[t].ret.confidence = Confidence(0, 1)
            /\ thr[t].ret.segments = "empty"
            /\ thr[t].ret.model_used = target_model
            /\ ~thr[t].called

\* a transcribe_audio call on samples returned after the construction of the
\* model failed, a model having been resident before
C24_Witness ==
    \E t \in DOMAIN thr :
        /\ LoadFailedTranscription(t)
        /\ thr[t].op = "transcribe_audio"
        /\ thr[t].fault
        /\ last_call.op = "unload"

\* thread t has returned from transcribe_file, no call overlapping another
FileTranscribed(t) ==
    thr[t].pc = "done" /\ thr[t].op = "transcribe_file" /\ ~overlapped

\* C25: transcribe_file returns a result and never raises, whether the file
\* exists or not and whether the backend raises when called, raises while
\* its segments are iterated, or succeeds; when the transcription failed
\* the result has text "" and confidence 0.0, and when the file was missing
\* or the backend raised its segment list is one diagnostic segment.
C25_FailureIsResult ==
    \A t \in DOMAIN thr :
        FileTranscribed(t) =>
            /\ thr[t].ret.kind = "result"
            /\ thr[t].fault
                  => /\ thr[t].ret.text = ""
                     /\ thr[t].ret.confidence = Confidence(0, 1)
            /\ (thr[t].fault /\ last_load.result = "ok") => thr[t].ret.segments = "error"
            /\ (thr[t].arg = "missing" /\ last_load.result = "ok")
                  => thr[t].fault /\ ~thr[t].called

\* a transcription whose backend raised has returned, right after one whose
\* file was missing
C25_Witness ==
    \E t \in DOMAIN thr :
        /\ FileTranscribed(t)
        /\ thr[t].fault /\ thr[t].called
        /\ thr[t].ret.segments = "error"
        /\ last_call.op = "transcribe_file" /\ last_call.arg = "missing"
        /\ last_call.ret.segments = "error"

\* clamp(x, 0, 1) in hundredths
Clamp(x) == IF x < 0 THEN 0 ELSE IF x > 100 THEN 100 ELSE x

\* the sum of clamp(1 + avg_logprob, 0, 1) over the first n segments
RECURSIVE ClampedSum(_, _)
ClampedSum(segs, n) ==
    IF n = 0 THEN 0 ELSE ClampedSum(segs, n - 1) + Clamp(100 + segs[n].avg_logprob)

\* C26: the confidence _collect_segments reports is the arithmetic mean over
\* the segments of clamp(1 + avg_logprob, 0, 1), and 0.0 when there is no
\* segment; it lies in [0, 1], is 1.0 for a single segment of avg_logprob
\* 0, and segments of avg_logprob <= -1 add nothing to the sum.
C26_MeanOfClamped ==
    agg.ret # NoRet =>
        LET segs == agg.out.segments
            n == Len(segs)
            c == agg.ret.confidence
            above == SelectSeq(segs, LAMBDA g : g.avg_logprob > -100)
        IN  /\ n = 0 => c = Confidence(0, 1)
            /\ n > 0 => c = Confidence(ClampedSum(segs, n), n)
            /\ c.den > 0 /\ 0 <= c.num /\ c.num <= 100 * c.den
            /\ (n = 1 /\ segs[1].avg_logprob = 0) => c.num = 100 * c.den
            /\ c.num = ClampedSum(above, Len(above))

\* three segments, one below -1, one between, one above 0, have been aggregated
C26_Witness ==
    /\ agg.ret # NoRet
    /\ Len(agg.out.segments) = 3
    /\ agg.out.segments[1].avg_logprob = -150
    /\ agg.out.segments[2].avg_logprob = -50
    /\ agg.out.segments[3].avg_logprob = 10
    /\ agg.ret.confidence = Confidence(150, 3)

\* detect_gpu has run and returned a profile
Detected == gpu_info # NotRun /\ gpu_info.raised = None

\* nvidia-smi printed a name and a memory size that int() accepts
CudaFound ==
    /\ nvidia_probe.kind = "output"
    /\ Len(nvidia_probe.parts) >= 2
    /\ nvidia_probe.parts[2].isint

\* rocm-smi printed a report of the memory
RocmFound == rocm_probe.kind = "output" /\ rocm_probe.text = "Total"

\* C27: the recommended model is a step function of the memory m the
\* profile reports: large-v3 from 10000 MB, medium from 5000, small from
\* 2000, base below; a profile without accelerator recommends base.
C27_RecommendedByMemory ==
    Detected =>
        LET m == gpu_info.vram_mb
            r == gpu_info.recommended_model
        IN  /\ gpu_info.gpu_type = "cuda" => m = nvidia_probe.parts[2].val
            /\ m >= 10000 => r = "large-v3"
            /\ (5000 <= m /\ m < 10000) => r = "medium"
            /\ (2000 <= m /\ m < 5000) => r = "small"
            /\ m < 2000 => r = "base"
            /\ ~gpu_info.gpu_available => r = "base"

\* an accelerator with exactly 10000 MB has been detected
C27_Witness ==
    /\ Detected
    /\ gpu_info.gpu_type = "cuda"
    /\ gpu_info.vram_mb = 10000
    /\ gpu_info.recommended_model = "large-v3"

\* C28: whenever detect_gpu returns a profile: a CUDA probe that succeeded
\* decides it, whatever the ROCm probe would say or raise; ROCm is reported
\* only when the CUDA probe failed or printed nothing; with neither the
\* profile is CPU-only; compute_type is float16 exactly when an accelerator
\* is reported and int8 exactly when none is.
C28_ProbeOrder ==
    /\ (gpu_info # NotRun /\ CudaFound)
          => /\ Detected
             /\ gpu_info.gpu_type = "cuda"
             /\ \A r \in RocmOutcomes : detect_gpu(nvidia_probe, r) = gpu_info
    /\ Detected
          => /\ gpu_info.gpu_type = "cuda" <=> CudaFound
             /\ gpu_info.gpu_type = "rocm" <=> (~CudaFound /\ RocmFound)
             /\ gpu_info.gpu_type = None <=> (~CudaFound /\ ~RocmFound)
             /\ gpu_info.gpu_available <=> gpu_info.gpu_type # None
             /\ gpu_info.compute_type = "float16" <=> gpu_info.gpu_available
             /\ gpu_info.compute_type = "int8" <=> ~gpu_info.gpu_available

\* both probes found an accelerator and the profile is the CUDA one
C28_Witness ==
    /\ Detected
    /\ CudaFound /\ RocmFound
    /\ gpu_info.gpu_type = "cuda"
    /\ gpu_info.compute_type = "float16"

\* the three one-shot inference endpoints
UploadEndpoints == {"/transcribe", "/transcribe/file/upload"}

\* the format of request r is in the allow-list of its endpoint: for
\* /transcribe the format its filename gives is in SUPPORTED_FORMATS, for
\* the file_transcribe endpoints the suffix is in SUPPORTED_EXTENSIONS
FormatAllowed(r) ==
    LET suffix == IF r.suffix = None THEN ".webm" ELSE r.suffix
    IN  IF r.endpoint = "/transcribe"
        THEN LStripDot(Lower(suffix)) \in SUPPORTED_FORMATS
        ELSE Lower(suffix) \in SUPPORTED_EXTENSIONS

\* C29 (as claimed): on every one-shot endpoint a request whose format is
\* not in the allow-list has no inference dispatched for it.
C29_UnsupportedRejectedEverywhere ==
    \A t \in DOMAIN req :
        (req[t].pc = "await" /\ req[t].endpoint \in UploadEndpoints \cup {"/transcribe/file/path"})
            => FormatAllowed(req[t])

\* C29 (amended): POST /transcribe/file/path dispatches no inference for a
\* suffix outside SUPPORTED_EXTENSIONS and answers it with a client error
\* whose message differs from those of the empty-upload rejections; the two
\* upload endpoints reject no format: they answer 400 only to an empty
\* upload or an invalid output_format.
C29_UnsupportedRejectedOnPath ==
    \A t \in DOMAIN req :
        /\ req[t].endpoint = "/transcribe/file/path"
              => /\ req[t].pc = "await" => FormatAllowed(req[t])
                 /\ (req[t].pc = "responded" /\ ~FormatAllowed(req[t]))
                       => /\ req[t].resp.status \in {400, 404}
                          /\ req[t].resp.result = NoRet
                 /\ req[t].resp.detail = "Unsupported format"
                       => req[t].resp.status = 400 /\ ~FormatAllowed(req[t])
        /\ req[t].resp.detail \in {"Empty audio file", "Empty file"}
              => /\ req[t].resp.status = 400
                 /\ req[t].endpoint \in UploadEndpoints
                 /\ req[t].bytes = <<>>
        /\ (req[t].endpoint \in UploadEndpoints /\ req[t].resp.status = 400)
              => \/ req[t].bytes = <<>>
                 \/ req[t].output_format \notin {"txt", "srt", "vtt", None}

\* the path endpoint has rejected a .exe file right after a transcription
\* that returned text
C29_Witness ==
    /\ req[Client].pc = "responded"
    /\ req[Client].endpoint = "/transcribe/file/path"
    /\ req[Client].suffix = ".exe"
    /\ req[Client].resp.detail = "Unsupported format"
    /\ ~overlapped
    /\ last_call.op = "transcribe_file"
    /\ last_call.ret.text # ""

\* C30: an upload of zero bytes is answered with 400 in the step that
\* receives it: no temp file is written, no engine method is called and the
\* engine's fields stay as they are.
C30_EmptyUploadRejected ==
    [][\A t \in DOMAIN req :
          (/\ req[t].pc # "await"
           /\ req'[t] # req[t]
           /\ req'[t].endpoint \in UploadEndpoints
           /\ req'[t].bytes = <<>>)
              => /\ req'[t].pc = "responded"
                 /\ req'[t].resp.status = 400
                 /\ req'[t].tmp = NoFile /\ ~req'[t].leaked
                 /\ UNCHANGED <<engine_vars, thr>>]_vars

\* POST /transcribe has rejected an empty upload while a model is resident
C30_Witness ==
    /\ req[Client].pc = "responded"
    /\ req[Client].endpoint = "/transcribe"
    /\ req[Client].bytes = <<>>
    /\ req[Client].resp = Response(400, "Empty audio file")
    /\ IsObject(model)
    /\ thr[Client].pc = "idle"

\* entries i and i+1 of the history are a user entry and an assistant entry
Alternates(h) ==
    \A i \in DOMAIN h : h[i].role = IF i % 2 = 1 THEN "user" ELSE "assistant"

\* C31: after every send the conversation history is the one the call found
\* plus, when the call succeeded, the user entry and the assistant entry,
\* in that order, and nothing more; when it failed the history is the one
\* the call found.  The history always has even length and alternates
\* user, assistant.
C31_HistoryConsistent ==
    /\ Len(chat.history) % 2 = 0
    /\ Alternates(chat.history)
    /\ chat.result.kind = "result"
          => IF chat.result.success
             THEN chat.history = chat.prior \o <<Entry("user", chat.text),
                                                 Entry("assistant", chat.result.response)>>
             ELSE chat.history = chat.prior

\* a send failed in the API call after an earlier one had succeeded
C31_Witness ==
    /\ chat.result.kind = "result"
    /\ ~chat.result.success
    /\ chat.client
    /\ Len(chat.history) = 2
    /\ chat.history = chat.prior

\* C32: the model_used a transcription is about to report (the name it read
\* for _collect_segments) is the name of the model object whose transcribe
\* it called, under every interleaving with other callers; and a
\* transcription that directly follows a successful switch(x) and succeeds
\* reports model_used = x.
C32_ModelUsedIsInferenceModel ==
    \A t \in DOMAIN thr :
        /\ thr[t].pc = "tf_iter" => thr[t].name = thr[t].obj.name
        /\ (/\ thr[t].pc = "done" /\ thr[t].op \in {"transcribe_file", "transcribe_audio"}
            /\ ~overlapped
            /\ thr[t].ret.kind = "result" /\ thr[t].ret.language # "unknown"
            /\ last_call.op = "switch" /\ last_call.ret.ok)
              => thr[t].ret.model_used = last_call.arg

\* status processing is the latest frame sent: the session is PROCESSING
Processing(s) ==
    /\ ses[s].frames # <<>>
    /\ ses[s].frames[Len(ses[s].frames)] = StatusFrame("processing")

\* status processing, one result or error frame, status ready
OneAnswer(frames) ==
    /\ Len(frames) = 3
    /\ frames[1] = StatusFrame("processing")
    /\ frames[2].type \in {"result", "error"}
    /\ frames[3] = StatusFrame("ready")

\* C33: on a connection that stays open, with jobs that return, the frames
\* sent from a status processing on are never anything but status
\* processing alone, or status processing, one result or error frame, status
\* ready; and a session that is PROCESSING gets to the second of these, back
\* in READY.
C33_ProcessingLeadsToReady ==
    \A s \in PairSessions :
        /\ []((ses[s].frames # <<>> /\ ses[s].frames[1] = StatusFrame("processing"))
                => (ses[s].frames = <<StatusFrame("processing")>> /\ ses[s].pc = "await")
                   \/ (OneAnswer(ses[s].frames) /\ ses[s].pc = "recv"))
        /\ Processing(s) ~> (OneAnswer(ses[s].frames) /\ StateOf(ses[s]) = "ready")

C33_Witness ==
    \E s \in PairSessions :
        /\ Answered(s, "stop", "recording")
        /\ ses[s].last.busy # {}
        /\ OneAnswer(ses[s].frames)
        /\ ses[s].frames[2].type = "result"

\* a step that hands a job of session s to the worker pool
Dispatches(s) ==
    /\ thr'[s] # thr[s]
    /\ thr'[s].pc = FirstPc("transcribe_file")

\* C34: a session's job is in flight only while its handler awaits it, where
\* the handler receives nothing; a job is dispatched only with no job of
\* the session in flight, by the handler receiving a stop with a non-empty
\* buffer; no other message and no other step dispatches one.
C34_OneJobOnlyByStop ==
    [][\A s \in StreamSessions :
          /\ thr[s].pc # "idle" => ses[s].pc = "await"
          /\ thr'[s].pc # "idle" => ses'[s].pc = "await"
          /\ Dispatches(s)
                => /\ thr[s].pc = "idle"
                   /\ Receives(s, "text", "object", "stop")
                   /\ ses[s].audio_chunks # <<>>
                   /\ ses'[s].last.type = "stop"
                   /\ ses'[s].pc = "await"]_vars

C34_Witness ==
    \E s \in StreamSessions :
        /\ ses[s].pc = "await"
        /\ thr[s].pc = "done"
        /\ ses[s].last.type = "stop"
        /\ ses[s].inbox # <<>>
        /\ Head(ses[s].inbox).type = "stop"
        /\ Len(ses[s].audio_chunks) = 2

\* C35: a session that is READY (its handler is receiving and is neither
\* RECORDING nor PROCESSING) holds no audio, whatever was received before,
\* a stop whose job or staging raised included.
C35_ReadyBufferEmpty ==
    \A s \in StreamSessions :
        (ses[s].pc = "recv" /\ StateOf(ses[s]) = "ready")
            => ses[s].audio_chunks = <<>> /\ ses[s].heard = <<>>

C35_Witness ==
    \E s \in StreamSessions :
        /\ Answered(s, "stop", "recording")
        /\ StateOf(ses[s]) = "ready"
        /\ SelectSeq(ses[s].prior.heard, NonEmpty) # <<>>
        /\ ses[s].frames = FailedFrames
        /\ ses[s].audio_chunks = <<>>

\* C36: a stop received in READY is answered with exactly status
\* processing, the error of the empty buffer, status ready; no job is
\* dispatched, no file is staged and the session is READY afterwards.
C36_StopInReady ==
    \A s \in StreamSessions :
        Answered(s, "stop", "ready")
            => /\ ses[s].frames = NoAudioFrames
               /\ StateOf(ses[s]) = "ready"
               /\ thr[s].pc = "idle"
               /\ ~ses[s].staged.present
               /\ ses[s].audio_chunks = <<>>

C36_Witness ==
    \E s \in StreamSessions :
        /\ Answered(s, "stop", "ready")
        /\ ses[s].last.arrived = "processing"
        /\ ses[s].frames = NoAudioFrames
        /\ ses[s].inbox # <<>>
        /\ Head(ses[s].inbox).kind = "bytes"

\* C37: a start received while RECORDING is answered with the single frame
\* status recording and leaves the session RECORDING with an empty buffer;
\* the file staged and transcribed for a stop holds exactly the non-empty
\* chunks received since the most recent start, in their order.
C37_RestartDiscards ==
    \A s \in StreamSessions :
        /\ Answered(s, "start", "recording")
              => /\ ses[s].frames = <<StatusFrame("recording")>>
                 /\ ses[s].recording
                 /\ ses[s].audio_chunks = <<>>
        /\ ses[s].pc = "await"
              => /\ ses[s].staged.content = Combined(SelectSeq(ses[s].heard, NonEmpty))
                 /\ thr[s].audio = ses[s].staged.content

C37_Witness ==
    \E s \in StreamSessions :
        /\ Answered(s, "start", "recording")
        /\ SelectSeq(ses[s].prior.heard, NonEmpty) # <<>>
        /\ ses[s].frames = <<StatusFrame("recording")>>
        /\ ses[s].audio_chunks = <<>>

\* C38: the engine's target model is never None and always a name of the
\* catalog, from construction on and through every call.
C38_TargetModelInCatalog ==
    target_model # None /\ target_model \in ModelNames

C38_Witness ==
    /\ Quiescent
    /\ gpu_info.recommended_model = "large-v3"
    /\ target_model = "large-v3"
    /\ last_call.op = "switch"
    /\ last_call.arg = "whisper-9"
    /\ ~last_call.ret.ok

\* no request that uses the refiner is between its start and its end
RefinerIdle == \A r \in RefinerRequests : refiner.job[r].pc \in {"none", "done"}

\* C39: whenever every refiner test request and every refine-enabled file
\* transcription that was started has completed, the refiner's enabled flag
\* has the value it had before them.
C39_FlagRestored ==
    RefinerIdle => refiner.enabled = refiner.constructed

====
